---- MODULE Spec2Model ----
(***************************************************************************)
(* Credit card statement parser (src/main.py): issuer detection, ordered   *)
(* pattern fallback per field, status classification and the batch loop.   *)
(*                                                                         *)
(* A str is a sequence of one-character strings, so that searching,        *)
(* capture groups and strip() are computed rather than assumed.  Messages  *)
(* and names that the program only passes around are TLA+ strings.         *)
(***************************************************************************)
EXTENDS Integers, Sequences, FiniteSets, TLC

(***************************************************************************)
(* Python's re, as far as the patterns of PARSERS use it: a pattern is a   *)
(* sequence of items, each either a run of literal characters or a         *)
(* character set (possibly negated) repeated min..max times greedily, and  *)
(* each item lies in capture group g (0: in none).  The registry has no    *)
(* alternation, anchors, nested or optional groups, or lazy repeats.       *)
(***************************************************************************)

\* the upper bound of * and + (sre's MAXREPEAT: no bound; here the largest
\* integer TLC has, far above any text length)
MAXREPEAT == 2147483647

Range09 == {"0", "1", "2", "3", "4", "5", "6", "7", "8", "9"}

\* \d
Digit == Range09

UpperCase ==
    <<"A", "B", "C", "D", "E", "F", "G", "H", "I", "J", "K", "L", "M",
      "N", "O", "P", "Q", "R", "S", "T", "U", "V", "W", "X", "Y", "Z">>

LowerCase ==
    <<"a", "b", "c", "d", "e", "f", "g", "h", "i", "j", "k", "l", "m",
      "n", "o", "p", "q", "r", "s", "t", "u", "v", "w", "x", "y", "z">>

Letters == {UpperCase[i] : i \in 1..26} \cup {LowerCase[i] : i \in 1..26}

\* \w
Word == Letters \cup Digit \cup {"_"}

\* \s
Space == {" ", "\t", "\n", "\r", "\f"}

\* the character ` of the amount patterns, which a TLA+ string cannot hold
Backquote == "\\x60"

\* the character \u20b9 (the rupee sign) of the amount patterns
Rupee == "\\u20b9"

\* what . does not match (no DOTALL)
Newline == {"\n"}

\* the other case of a letter; any other character is its own other case
OtherCase ==
    [c \in Letters |->
        IF \E i \in 1..26 : UpperCase[i] = c
        THEN LowerCase[CHOOSE i \in 1..26 : UpperCase[i] = c]
        ELSE UpperCase[CHOOSE i \in 1..26 : LowerCase[i] = c]]

SwapCase(c) == IF c \in Letters THEN OtherCase[c] ELSE c

\* x{min,max} for a character set x
Repeat(cls, min, max) ==
    [lit |-> <<>>, cls |-> cls, neg |-> FALSE, min |-> min, max |-> max, g |-> 0]

\* x{min,max} for a negated set [^...] (and for . which is [^\n])
RepeatNot(cls, min, max) ==
    [lit |-> <<>>, cls |-> cls, neg |-> TRUE, min |-> min, max |-> max, g |-> 0]

\* a run of literal characters, as a pattern of one item
Literal(chars) ==
    <<[lit |-> chars, cls |-> {}, neg |-> FALSE, min |-> 1, max |-> 1, g |-> 0]>>

\* ( items ): capture group number g
Group(g, items) == [i \in 1..Len(items) |-> [items[i] EXCEPT !.g = g]]

\* re.IGNORECASE and re.MULTILINE; MULTILINE changes only ^ and $, which no
\* pattern of the registry uses
IGNORECASE == "IGNORECASE"

MULTILINE == "MULTILINE"

\* whether a character of the text is character x of a pattern
SameChar(c, x, flags) == c = x \/ (IGNORECASE \in flags /\ SwapCase(c) = x)

\* whether the literal run stands in the text at pos
LiteralAt(chars, text, pos, flags) ==
    /\ pos + Len(chars) - 1 <= Len(text)
    /\ \A i \in 1..Len(chars) : SameChar(text[pos + i - 1], chars[i], flags)

\* whether a repeated set accepts character c
Accepts(item, c, flags) ==
    LET hit == c \in item.cls \/ (IGNORECASE \in flags /\ SwapCase(c) \in item.cls)
    IN  IF item.neg THEN ~hit ELSE hit

\* how many characters from pos on the item takes when greedy: it stops at
\* max, at the end of the text or before the first character it rejects
GreedyRun(item, text, pos, flags) ==
    LET room == IF Len(text) - pos + 1 < item.max THEN Len(text) - pos + 1 ELSE item.max
    IN  CHOOSE n \in 0..room :
            /\ n = room \/ ~Accepts(item, text[pos + n], flags)
            /\ \A m \in 0..(n - 1) : Accepts(item, text[pos + m], flags)

\* the numbers of characters item k may take at pos, before the rest of the
\* pattern has its say
Takes(item, text, pos, flags) ==
    IF item.lit # <<>>
    THEN IF LiteralAt(item.lit, text, pos, flags) THEN {Len(item.lit)} ELSE {}
    ELSE item.min..GreedyRun(item, text, pos, flags)

\* The match of items k.. at pos: the start position of each item from k on,
\* then the end position; <<>> when there is none.  An item takes as many
\* characters as the rest of the pattern allows (greedy, with backtracking).
RECURSIVE MatchAt(_, _, _, _, _)
MatchAt(items, k, text, pos, flags) ==
    IF k > Len(items) THEN <<pos>>
    ELSE LET tails == {<<n, MatchAt(items, k + 1, text, pos + n, flags)>> :
                          n \in Takes(items[k], text, pos, flags)}
             fits  == {t \in tails : t[2] # <<>>}
         IN  IF fits = {} THEN <<>>
             ELSE LET best == CHOOSE t \in fits : \A u \in fits : u[1] <= t[1]
                  IN  <<pos>> \o best[2]

\* re.search's None: no match
NoMatch == [string |-> <<>>, pattern |-> <<>>, bounds |-> <<>>]

\* re.search: the match at the leftmost position that has one, as
\* [string, pattern, bounds], or NoMatch
re_search(pattern, text, flags) ==
    LET tries == {<<s, MatchAt(pattern, 1, text, s, flags)>> : s \in 1..Len(text) + 1}
        found == {t \in tries : t[2] # <<>>}
    IN  IF found = {} THEN NoMatch
        ELSE LET first == CHOOSE t \in found : \A u \in found : t[1] <= u[1]
             IN  [string |-> text, pattern |-> pattern, bounds |-> first[2]]

\* number of capture groups of a pattern
NumGroups(pattern) ==
    IF pattern = <<>> THEN 0
    ELSE LET gs == {pattern[i].g : i \in 1..Len(pattern)}
         IN  CHOOSE g \in gs : \A h \in gs : h <= g

\* match.group(g), g >= 1
MatchGroup(m, g) ==
    LET idx   == {i \in 1..Len(m.pattern) : m.pattern[i].g = g}
        first == CHOOSE i \in idx : \A j \in idx : i <= j
        last  == CHOOSE i \in idx : \A j \in idx : j <= i
    IN  SubSeq(m.string, m.bounds[first], m.bounds[last + 1] - 1)

\* match.group(0): the whole match
MatchGroup0(m) == SubSeq(m.string, m.bounds[1], m.bounds[Len(m.bounds)] - 1)

\* match.groups()
MatchGroups(m) == [g \in 1..NumGroups(m.pattern) |-> MatchGroup(m, g)]

\* PARSERS['ICICI Bank']['identifier']
ICICI_identifier ==
    <<
       \* r'ICICI\s+Bank'
       Literal(<<"I", "C", "I", "C", "I">>) \o <<Repeat(Space, 1, MAXREPEAT)>>
       \o Literal(<<"B", "a", "n", "k">>),
       \* r'icicibank\.com'
       Literal(<<"i", "c", "i", "c", "i", "b", "a", "n", "k", ".", "c", "o", "m">>),
       \* r'CIN.*L65190GJ1994PLC021012'
       Literal(<<"C", "I", "N">>) \o <<RepeatNot(Newline, 0, MAXREPEAT)>>
       \o Literal(<<"L", "6", "5", "1", "9", "0", "G", "J", "1", "9", "9", "4", "P", "L", "C", "0", "2", "1", "0", "1", "2">>)
    >>

\* PARSERS['ICICI Bank']['patterns']['card_number']
ICICI_card_number ==
    <<
       \* r'(\d{4}[X]{8}\d{4})'
       Group(1, <<Repeat(Digit, 4, 4)>> \o <<Repeat({"X"}, 8, 8)>>
       \o <<Repeat(Digit, 4, 4)>>),
       \* r'(\d{16})'
       Group(1, <<Repeat(Digit, 16, 16)>>)
    >>

\* PARSERS['ICICI Bank']['patterns']['statement_date']
ICICI_statement_date ==
    <<
       \* r'STATEMENT\s+DATE[:\s]*(\d{1,2}\s+\w+,?\s+\d{4})'
       Literal(<<"S", "T", "A", "T", "E", "M", "E", "N", "T">>)
       \o <<Repeat(Space, 1, MAXREPEAT)>> \o Literal(<<"D", "A", "T", "E">>)
       \o <<Repeat(Space \cup {":"}, 0, MAXREPEAT)>> \o Group(1, <<Repeat(Digit, 1, 2)>>
       \o <<Repeat(Space, 1, MAXREPEAT)>> \o <<Repeat(Word, 1, MAXREPEAT)>>
       \o <<Repeat({","}, 0, 1)>> \o <<Repeat(Space, 1, MAXREPEAT)>>
       \o <<Repeat(Digit, 4, 4)>>),
       \* r'Statement\s+period\s*:.*to\s+(\w+\s+\d{1,2},\s+\d{4})'
       Literal(<<"S", "t", "a", "t", "e", "m", "e", "n", "t">>)
       \o <<Repeat(Space, 1, MAXREPEAT)>> \o Literal(<<"p", "e", "r", "i", "o", "d">>)
       \o <<Repeat(Space, 0, MAXREPEAT)>> \o Literal(<<":">>)
       \o <<RepeatNot(Newline, 0, MAXREPEAT)>> \o Literal(<<"t", "o">>)
       \o <<Repeat(Space, 1, MAXREPEAT)>> \o Group(1, <<Repeat(Word, 1, MAXREPEAT)>>
       \o <<Repeat(Space, 1, MAXREPEAT)>> \o <<Repeat(Digit, 1, 2)>> \o Literal(<<",">>)
       \o <<Repeat(Space, 1, MAXREPEAT)>> \o <<Repeat(Digit, 4, 4)>>)
    >>

\* PARSERS['ICICI Bank']['patterns']['payment_due_date']
ICICI_payment_due_date ==
    <<
       \* r'PAYMENT\s+DUE\s+DATE[:\s]*(\d{1,2}\s+\w+,?\s+\d{4})'
       Literal(<<"P", "A", "Y", "M", "E", "N", "T">>) \o <<Repeat(Space, 1, MAXREPEAT)>>
       \o Literal(<<"D", "U", "E">>) \o <<Repeat(Space, 1, MAXREPEAT)>>
       \o Literal(<<"D", "A", "T", "E">>) \o <<Repeat(Space \cup {":"}, 0, MAXREPEAT)>>
       \o Group(1, <<Repeat(Digit, 1, 2)>> \o <<Repeat(Space, 1, MAXREPEAT)>>
       \o <<Repeat(Word, 1, MAXREPEAT)>> \o <<Repeat({","}, 0, 1)>>
       \o <<Repeat(Space, 1, MAXREPEAT)>> \o <<Repeat(Digit, 4, 4)>>),
       \* r'Payment\s+Due\s+Date[:\s]*(\w+\s+\d{1,2},\s+\d{4})'
       Literal(<<"P", "a", "y", "m", "e", "n", "t">>) \o <<Repeat(Space, 1, MAXREPEAT)>>
       \o Literal(<<"D", "u", "e">>) \o <<Repeat(Space, 1, MAXREPEAT)>>
       \o Literal(<<"D", "a", "t", "e">>) \o <<Repeat(Space \cup {":"}, 0, MAXREPEAT)>>
       \o Group(1, <<Repeat(Word, 1, MAXREPEAT)>> \o <<Repeat(Space, 1, MAXREPEAT)>>
       \o <<Repeat(Digit, 1, 2)>> \o Literal(<<",">>) \o <<Repeat(Space, 1, MAXREPEAT)>>
       \o <<Repeat(Digit, 4, 4)>>)
    >>

\* PARSERS['ICICI Bank']['patterns']['total_amount_due']
ICICI_total_amount_due ==
    <<
       \* r'Total\s+Amount\s+due[:\s]*[\u20b9`Rs\.?\s]*([0-9,]+\.?\d{0,2})'
       Literal(<<"T", "o", "t", "a", "l">>) \o <<Repeat(Space, 1, MAXREPEAT)>>
       \o Literal(<<"A", "m", "o", "u", "n", "t">>) \o <<Repeat(Space, 1, MAXREPEAT)>>
       \o Literal(<<"d", "u", "e">>) \o <<Repeat(Space \cup {":"}, 0, MAXREPEAT)>>
       \o <<Repeat(Space \cup {Rupee, Backquote, "R", "s", ".", "?"}, 0, MAXREPEAT)>>
       \o Group(1, <<Repeat(Range09 \cup {","}, 1, MAXREPEAT)>> \o <<Repeat({"."}, 0, 1)>>
       \o <<Repeat(Digit, 0, 2)>>),
       \* r'Total\s+Payment\s+Due[:\s]*[\u20b9`Rs\.?\s]*([0-9,]+\.?\d{0,2})'
       Literal(<<"T", "o", "t", "a", "l">>) \o <<Repeat(Space, 1, MAXREPEAT)>>
       \o Literal(<<"P", "a", "y", "m", "e", "n", "t">>) \o <<Repeat(Space, 1, MAXREPEAT)>>
       \o Literal(<<"D", "u", "e">>) \o <<Repeat(Space \cup {":"}, 0, MAXREPEAT)>>
       \o <<Repeat(Space \cup {Rupee, Backquote, "R", "s", ".", "?"}, 0, MAXREPEAT)>>
       \o Group(1, <<Repeat(Range09 \cup {","}, 1, MAXREPEAT)>> \o <<Repeat({"."}, 0, 1)>>
       \o <<Repeat(Digit, 0, 2)>>)
    >>

\* PARSERS['ICICI Bank']['patterns']['minimum_amount_due']
ICICI_minimum_amount_due ==
    <<
       \* r'Minimum\s+Amount\s+due[:\s]*[\u20b9`Rs\.?\s]*([0-9,]+\.?\d{0,2})'
       Literal(<<"M", "i", "n", "i", "m", "u", "m">>) \o <<Repeat(Space, 1, MAXREPEAT)>>
       \o Literal(<<"A", "m", "o", "u", "n", "t">>) \o <<Repeat(Space, 1, MAXREPEAT)>>
       \o Literal(<<"d", "u", "e">>) \o <<Repeat(Space \cup {":"}, 0, MAXREPEAT)>>
       \o <<Repeat(Space \cup {Rupee, Backquote, "R", "s", ".", "?"}, 0, MAXREPEAT)>>
       \o Group(1, <<Repeat(Range09 \cup {","}, 1, MAXREPEAT)>> \o <<Repeat({"."}, 0, 1)>>
       \o <<Repeat(Digit, 0, 2)>>),
       \* r'Minimum\s+Payment\s+Due[:\s]*[\u20b9`Rs\.?\s]*([0-9,]+\.?\d{0,2})'
       Literal(<<"M", "i", "n", "i", "m", "u", "m">>) \o <<Repeat(Space, 1, MAXREPEAT)>>
       \o Literal(<<"P", "a", "y", "m", "e", "n", "t">>) \o <<Repeat(Space, 1, MAXREPEAT)>>
       \o Literal(<<"D", "u", "e">>) \o <<Repeat(Space \cup {":"}, 0, MAXREPEAT)>>
       \o <<Repeat(Space \cup {Rupee, Backquote, "R", "s", ".", "?"}, 0, MAXREPEAT)>>
       \o Group(1, <<Repeat(Range09 \cup {","}, 1, MAXREPEAT)>> \o <<Repeat({"."}, 0, 1)>>
       \o <<Repeat(Digit, 0, 2)>>)
    >>

\* PARSERS['ICICI Bank']['patterns']['credit_limit']
ICICI_credit_limit ==
    <<
       \* r'Credit\s+Limit\s*\(Including\s+cash\)[:\s]*[\u20b9`Rs\.?\s]*([0-9,]+\.?\d{0,2})'
       Literal(<<"C", "r", "e", "d", "i", "t">>) \o <<Repeat(Space, 1, MAXREPEAT)>>
       \o Literal(<<"L", "i", "m", "i", "t">>) \o <<Repeat(Space, 0, MAXREPEAT)>>
       \o Literal(<<"(", "I", "n", "c", "l", "u", "d", "i", "n", "g">>)
       \o <<Repeat(Space, 1, MAXREPEAT)>> \o Literal(<<"c", "a", "s", "h", ")">>)
       \o <<Repeat(Space \cup {":"}, 0, MAXREPEAT)>>
       \o <<Repeat(Space \cup {Rupee, Backquote, "R", "s", ".", "?"}, 0, MAXREPEAT)>>
       \o Group(1, <<Repeat(Range09 \cup {","}, 1, MAXREPEAT)>> \o <<Repeat({"."}, 0, 1)>>
       \o <<Repeat(Digit, 0, 2)>>),
       \* r'Credit\s+Limit[:\s]*[\u20b9`Rs\.?\s]*([0-9,]+\.?\d{0,2})'
       Literal(<<"C", "r", "e", "d", "i", "t">>) \o <<Repeat(Space, 1, MAXREPEAT)>>
       \o Literal(<<"L", "i", "m", "i", "t">>) \o <<Repeat(Space \cup {":"}, 0, MAXREPEAT)>>
       \o <<Repeat(Space \cup {Rupee, Backquote, "R", "s", ".", "?"}, 0, MAXREPEAT)>>
       \o Group(1, <<Repeat(Range09 \cup {","}, 1, MAXREPEAT)>> \o <<Repeat({"."}, 0, 1)>>
       \o <<Repeat(Digit, 0, 2)>>)
    >>

\* PARSERS['ICICI Bank']['patterns']['available_credit']
ICICI_available_credit ==
    <<
       \* r'Available\s+Credit\s*\(Including\s+cash\)[:\s]*[\u20b9`Rs\.?\s]*([0-9,]+\.?\d{0,2})'
       Literal(<<"A", "v", "a", "i", "l", "a", "b", "l", "e">>)
       \o <<Repeat(Space, 1, MAXREPEAT)>> \o Literal(<<"C", "r", "e", "d", "i", "t">>)
       \o <<Repeat(Space, 0, MAXREPEAT)>>
       \o Literal(<<"(", "I", "n", "c", "l", "u", "d", "i", "n", "g">>)
       \o <<Repeat(Space, 1, MAXREPEAT)>> \o Literal(<<"c", "a", "s", "h", ")">>)
       \o <<Repeat(Space \cup {":"}, 0, MAXREPEAT)>>
       \o <<Repeat(Space \cup {Rupee, Backquote, "R", "s", ".", "?"}, 0, MAXREPEAT)>>
       \o Group(1, <<Repeat(Range09 \cup {","}, 1, MAXREPEAT)>> \o <<Repeat({"."}, 0, 1)>>
       \o <<Repeat(Digit, 0, 2)>>)
    >>

\* PARSERS['ICICI Bank']['patterns']['previous_balance']
ICICI_previous_balance ==
    <<
       \* r'Previous\s+Balance[:\s]*[\u20b9`Rs\.?\s]*([0-9,]+\.?\d{0,2})'
       Literal(<<"P", "r", "e", "v", "i", "o", "u", "s">>)
       \o <<Repeat(Space, 1, MAXREPEAT)>> \o Literal(<<"B", "a", "l", "a", "n", "c", "e">>)
       \o <<Repeat(Space \cup {":"}, 0, MAXREPEAT)>>
       \o <<Repeat(Space \cup {Rupee, Backquote, "R", "s", ".", "?"}, 0, MAXREPEAT)>>
       \o Group(1, <<Repeat(Range09 \cup {","}, 1, MAXREPEAT)>> \o <<Repeat({"."}, 0, 1)>>
       \o <<Repeat(Digit, 0, 2)>>)
    >>

\* PARSERS['Axis Bank']['identifier']
Axis_identifier ==
    <<
       \* r'Axis\s+Bank'
       Literal(<<"A", "x", "i", "s">>) \o <<Repeat(Space, 1, MAXREPEAT)>>
       \o Literal(<<"B", "a", "n", "k">>),
       \* r'axisbank\.com'
       Literal(<<"a", "x", "i", "s", "b", "a", "n", "k", ".", "c", "o", "m">>),
       \* r'AAACU2414K3ZD'
       Literal(<<"A", "A", "A", "C", "U", "2", "4", "1", "4", "K", "3", "Z", "D">>)
    >>

\* PARSERS['Axis Bank']['patterns']['card_number']
Axis_card_number ==
    <<
       \* r'Card\s+No[:\s]*(\d{8}\*{4}\d{4})'
       Literal(<<"C", "a", "r", "d">>) \o <<Repeat(Space, 1, MAXREPEAT)>>
       \o Literal(<<"N", "o">>) \o <<Repeat(Space \cup {":"}, 0, MAXREPEAT)>>
       \o Group(1, <<Repeat(Digit, 8, 8)>> \o <<Repeat({"*"}, 4, 4)>>
       \o <<Repeat(Digit, 4, 4)>>),
       \* r'Card\s+No[:\s]*(\d{14}\*{4}\d{4})'
       Literal(<<"C", "a", "r", "d">>) \o <<Repeat(Space, 1, MAXREPEAT)>>
       \o Literal(<<"N", "o">>) \o <<Repeat(Space \cup {":"}, 0, MAXREPEAT)>>
       \o Group(1, <<Repeat(Digit, 14, 14)>> \o <<Repeat({"*"}, 4, 4)>>
       \o <<Repeat(Digit, 4, 4)>>),
       \* r'Credit\s+Card\s+Number[:\s]*(\d{8}\*{4}\d{4})'
       Literal(<<"C", "r", "e", "d", "i", "t">>) \o <<Repeat(Space, 1, MAXREPEAT)>>
       \o Literal(<<"C", "a", "r", "d">>) \o <<Repeat(Space, 1, MAXREPEAT)>>
       \o Literal(<<"N", "u", "m", "b", "e", "r">>)
       \o <<Repeat(Space \cup {":"}, 0, MAXREPEAT)>> \o Group(1, <<Repeat(Digit, 8, 8)>>
       \o <<Repeat({"*"}, 4, 4)>> \o <<Repeat(Digit, 4, 4)>>)
    >>

\* PARSERS['Axis Bank']['patterns']['statement_date']
Axis_statement_date ==
    <<
       \* r'Statement\s+Generation\s+Date[:\s]*(\d{2}[\/\-]\d{2}[\/\-]\d{4})'
       Literal(<<"S", "t", "a", "t", "e", "m", "e", "n", "t">>)
       \o <<Repeat(Space, 1, MAXREPEAT)>>
       \o Literal(<<"G", "e", "n", "e", "r", "a", "t", "i", "o", "n">>)
       \o <<Repeat(Space, 1, MAXREPEAT)>> \o Literal(<<"D", "a", "t", "e">>)
       \o <<Repeat(Space \cup {":"}, 0, MAXREPEAT)>> \o Group(1, <<Repeat(Digit, 2, 2)>>
       \o <<Repeat({"/", "-"}, 1, 1)>> \o <<Repeat(Digit, 2, 2)>>
       \o <<Repeat({"/", "-"}, 1, 1)>> \o <<Repeat(Digit, 4, 4)>>),
       \* r'(\d{2}[\/\-]\d{2}[\/\-]\d{4})\s*-\s*(\d{2}[\/\-]\d{2}[\/\-]\d{4})'
       Group(1, <<Repeat(Digit, 2, 2)>> \o <<Repeat({"/", "-"}, 1, 1)>>
       \o <<Repeat(Digit, 2, 2)>> \o <<Repeat({"/", "-"}, 1, 1)>>
       \o <<Repeat(Digit, 4, 4)>>) \o <<Repeat(Space, 0, MAXREPEAT)>> \o Literal(<<"-">>)
       \o <<Repeat(Space, 0, MAXREPEAT)>> \o Group(2, <<Repeat(Digit, 2, 2)>>
       \o <<Repeat({"/", "-"}, 1, 1)>> \o <<Repeat(Digit, 2, 2)>>
       \o <<Repeat({"/", "-"}, 1, 1)>> \o <<Repeat(Digit, 4, 4)>>)
    >>

\* PARSERS['Axis Bank']['patterns']['payment_due_date']
Axis_payment_due_date ==
    <<
       \* r'Payment\s+Due\s+Date[:\s]*(\d{2}[\/\-]\d{2}[\/\-]\d{4})'
       Literal(<<"P", "a", "y", "m", "e", "n", "t">>) \o <<Repeat(Space, 1, MAXREPEAT)>>
       \o Literal(<<"D", "u", "e">>) \o <<Repeat(Space, 1, MAXREPEAT)>>
       \o Literal(<<"D", "a", "t", "e">>) \o <<Repeat(Space \cup {":"}, 0, MAXREPEAT)>>
       \o Group(1, <<Repeat(Digit, 2, 2)>> \o <<Repeat({"/", "-"}, 1, 1)>>
       \o <<Repeat(Digit, 2, 2)>> \o <<Repeat({"/", "-"}, 1, 1)>>
       \o <<Repeat(Digit, 4, 4)>>)
    >>

\* PARSERS['Axis Bank']['patterns']['total_amount_due']
Axis_total_amount_due ==
    <<
       \* r'Total\s+Payment\s+Due[:\s]*([0-9,]+\.?\d{0,2})\s*Dr'
       Literal(<<"T", "o", "t", "a", "l">>) \o <<Repeat(Space, 1, MAXREPEAT)>>
       \o Literal(<<"P", "a", "y", "m", "e", "n", "t">>) \o <<Repeat(Space, 1, MAXREPEAT)>>
       \o Literal(<<"D", "u", "e">>) \o <<Repeat(Space \cup {":"}, 0, MAXREPEAT)>>
       \o Group(1, <<Repeat(Range09 \cup {","}, 1, MAXREPEAT)>> \o <<Repeat({"."}, 0, 1)>>
       \o <<Repeat(Digit, 0, 2)>>) \o <<Repeat(Space, 0, MAXREPEAT)>>
       \o Literal(<<"D", "r">>),
       \* r'Total\s+Amount\s+Due[:\s]*([0-9,]+\.?\d{0,2})'
       Literal(<<"T", "o", "t", "a", "l">>) \o <<Repeat(Space, 1, MAXREPEAT)>>
       \o Literal(<<"A", "m", "o", "u", "n", "t">>) \o <<Repeat(Space, 1, MAXREPEAT)>>
       \o Literal(<<"D", "u", "e">>) \o <<Repeat(Space \cup {":"}, 0, MAXREPEAT)>>
       \o Group(1, <<Repeat(Range09 \cup {","}, 1, MAXREPEAT)>> \o <<Repeat({"."}, 0, 1)>>
       \o <<Repeat(Digit, 0, 2)>>)
    >>

\* PARSERS['Axis Bank']['patterns']['minimum_amount_due']
Axis_minimum_amount_due ==
    <<
       \* r'Minimum\s+Payment\s+Due[:\s]*([0-9,]+\.?\d{0,2})\s*Dr'
       Literal(<<"M", "i", "n", "i", "m", "u", "m">>) \o <<Repeat(Space, 1, MAXREPEAT)>>
       \o Literal(<<"P", "a", "y", "m", "e", "n", "t">>) \o <<Repeat(Space, 1, MAXREPEAT)>>
       \o Literal(<<"D", "u", "e">>) \o <<Repeat(Space \cup {":"}, 0, MAXREPEAT)>>
       \o Group(1, <<Repeat(Range09 \cup {","}, 1, MAXREPEAT)>> \o <<Repeat({"."}, 0, 1)>>
       \o <<Repeat(Digit, 0, 2)>>) \o <<Repeat(Space, 0, MAXREPEAT)>>
       \o Literal(<<"D", "r">>),
       \* r'Minimum\s+Amount\s+Due[:\s]*([0-9,]+\.?\d{0,2})'
       Literal(<<"M", "i", "n", "i", "m", "u", "m">>) \o <<Repeat(Space, 1, MAXREPEAT)>>
       \o Literal(<<"A", "m", "o", "u", "n", "t">>) \o <<Repeat(Space, 1, MAXREPEAT)>>
       \o Literal(<<"D", "u", "e">>) \o <<Repeat(Space \cup {":"}, 0, MAXREPEAT)>>
       \o Group(1, <<Repeat(Range09 \cup {","}, 1, MAXREPEAT)>> \o <<Repeat({"."}, 0, 1)>>
       \o <<Repeat(Digit, 0, 2)>>)
    >>

\* PARSERS['Axis Bank']['patterns']['credit_limit']
Axis_credit_limit ==
    <<
       \* r'Credit\s+Limit[:\s]*([0-9,]+\.?\d{0,2})'
       Literal(<<"C", "r", "e", "d", "i", "t">>) \o <<Repeat(Space, 1, MAXREPEAT)>>
       \o Literal(<<"L", "i", "m", "i", "t">>) \o <<Repeat(Space \cup {":"}, 0, MAXREPEAT)>>
       \o Group(1, <<Repeat(Range09 \cup {","}, 1, MAXREPEAT)>> \o <<Repeat({"."}, 0, 1)>>
       \o <<Repeat(Digit, 0, 2)>>)
    >>

\* PARSERS['Axis Bank']['patterns']['available_credit']
Axis_available_credit ==
    <<
       \* r'Available\s+Credit\s+Limit[:\s]*([0-9,]+\.?\d{0,2})'
       Literal(<<"A", "v", "a", "i", "l", "a", "b", "l", "e">>)
       \o <<Repeat(Space, 1, MAXREPEAT)>> \o Literal(<<"C", "r", "e", "d", "i", "t">>)
       \o <<Repeat(Space, 1, MAXREPEAT)>> \o Literal(<<"L", "i", "m", "i", "t">>)
       \o <<Repeat(Space \cup {":"}, 0, MAXREPEAT)>>
       \o Group(1, <<Repeat(Range09 \cup {","}, 1, MAXREPEAT)>> \o <<Repeat({"."}, 0, 1)>>
       \o <<Repeat(Digit, 0, 2)>>)
    >>

\* PARSERS['Axis Bank']['patterns']['previous_balance']
Axis_previous_balance ==
    <<
       \* r'Previous\s+Balance[:\s]*-?\s*([0-9,]+\.?\d{0,2})\s*Dr'
       Literal(<<"P", "r", "e", "v", "i", "o", "u", "s">>)
       \o <<Repeat(Space, 1, MAXREPEAT)>> \o Literal(<<"B", "a", "l", "a", "n", "c", "e">>)
       \o <<Repeat(Space \cup {":"}, 0, MAXREPEAT)>> \o <<Repeat({"-"}, 0, 1)>>
       \o <<Repeat(Space, 0, MAXREPEAT)>>
       \o Group(1, <<Repeat(Range09 \cup {","}, 1, MAXREPEAT)>> \o <<Repeat({"."}, 0, 1)>>
       \o <<Repeat(Digit, 0, 2)>>) \o <<Repeat(Space, 0, MAXREPEAT)>>
       \o Literal(<<"D", "r">>)
    >>

\* PARSERS['IDFC FIRST Bank']['identifier']
IDFC_identifier ==
    <<
       \* r'IDFC\s+FIRST\s+Bank'
       Literal(<<"I", "D", "F", "C">>) \o <<Repeat(Space, 1, MAXREPEAT)>>
       \o Literal(<<"F", "I", "R", "S", "T">>) \o <<Repeat(Space, 1, MAXREPEAT)>>
       \o Literal(<<"B", "a", "n", "k">>),
       \* r'idfcfirstbank\.com'
       Literal(<<"i", "d", "f", "c", "f", "i", "r", "s", "t", "b", "a", "n", "k", ".", "c", "o", "m">>),
       \* r'IDFB0010225'
       Literal(<<"I", "D", "F", "B", "0", "0", "1", "0", "2", "2", "5">>)
    >>

\* PARSERS['IDFC FIRST Bank']['patterns']['card_number']
IDFC_card_number ==
    <<
       \* r'Card\s+Number[:\s]*XXXX\s*(\d{4})'
       Literal(<<"C", "a", "r", "d">>) \o <<Repeat(Space, 1, MAXREPEAT)>>
       \o Literal(<<"N", "u", "m", "b", "e", "r">>)
       \o <<Repeat(Space \cup {":"}, 0, MAXREPEAT)>> \o Literal(<<"X", "X", "X", "X">>)
       \o <<Repeat(Space, 0, MAXREPEAT)>> \o Group(1, <<Repeat(Digit, 4, 4)>>),
       \* r'Account\s+Number[:\s]*(\d+)'
       Literal(<<"A", "c", "c", "o", "u", "n", "t">>) \o <<Repeat(Space, 1, MAXREPEAT)>>
       \o Literal(<<"N", "u", "m", "b", "e", "r">>)
       \o <<Repeat(Space \cup {":"}, 0, MAXREPEAT)>>
       \o Group(1, <<Repeat(Digit, 1, MAXREPEAT)>>)
    >>

\* PARSERS['IDFC FIRST Bank']['patterns']['statement_date']
IDFC_statement_date ==
    <<
       \* r'(\d{2}\/\d{2}\/\d{4})\s*-\s*(\d{2}\/\d{2}\/\d{4})'
       Group(1, <<Repeat(Digit, 2, 2)>> \o Literal(<<"/">>) \o <<Repeat(Digit, 2, 2)>>
       \o Literal(<<"/">>) \o <<Repeat(Digit, 4, 4)>>) \o <<Repeat(Space, 0, MAXREPEAT)>>
       \o Literal(<<"-">>) \o <<Repeat(Space, 0, MAXREPEAT)>>
       \o Group(2, <<Repeat(Digit, 2, 2)>> \o Literal(<<"/">>) \o <<Repeat(Digit, 2, 2)>>
       \o Literal(<<"/">>) \o <<Repeat(Digit, 4, 4)>>)
    >>

\* PARSERS['IDFC FIRST Bank']['patterns']['payment_due_date']
IDFC_payment_due_date ==
    <<
       \* r'Payment\s+Due\s+Date[:\s]*(\d{2}\/\d{2}\/\d{4})'
       Literal(<<"P", "a", "y", "m", "e", "n", "t">>) \o <<Repeat(Space, 1, MAXREPEAT)>>
       \o Literal(<<"D", "u", "e">>) \o <<Repeat(Space, 1, MAXREPEAT)>>
       \o Literal(<<"D", "a", "t", "e">>) \o <<Repeat(Space \cup {":"}, 0, MAXREPEAT)>>
       \o Group(1, <<Repeat(Digit, 2, 2)>> \o Literal(<<"/">>) \o <<Repeat(Digit, 2, 2)>>
       \o Literal(<<"/">>) \o <<Repeat(Digit, 4, 4)>>)
    >>

\* PARSERS['IDFC FIRST Bank']['patterns']['total_amount_due']
IDFC_total_amount_due ==
    <<
       \* r'Total\s+Amount\s+Due[:\s]*r([0-9,]+\.?\d{0,2})'
       Literal(<<"T", "o", "t", "a", "l">>) \o <<Repeat(Space, 1, MAXREPEAT)>>
       \o Literal(<<"A", "m", "o", "u", "n", "t">>) \o <<Repeat(Space, 1, MAXREPEAT)>>
       \o Literal(<<"D", "u", "e">>) \o <<Repeat(Space \cup {":"}, 0, MAXREPEAT)>>
       \o Literal(<<"r">>) \o Group(1, <<Repeat(Range09 \cup {","}, 1, MAXREPEAT)>>
       \o <<Repeat({"."}, 0, 1)>> \o <<Repeat(Digit, 0, 2)>>)
    >>

\* PARSERS['IDFC FIRST Bank']['patterns']['minimum_amount_due']
IDFC_minimum_amount_due ==
    <<
       \* r'Minimum\s+Amount\s+Due[:\s]*r([0-9,]+\.?\d{0,2})'
       Literal(<<"M", "i", "n", "i", "m", "u", "m">>) \o <<Repeat(Space, 1, MAXREPEAT)>>
       \o Literal(<<"A", "m", "o", "u", "n", "t">>) \o <<Repeat(Space, 1, MAXREPEAT)>>
       \o Literal(<<"D", "u", "e">>) \o <<Repeat(Space \cup {":"}, 0, MAXREPEAT)>>
       \o Literal(<<"r">>) \o Group(1, <<Repeat(Range09 \cup {","}, 1, MAXREPEAT)>>
       \o <<Repeat({"."}, 0, 1)>> \o <<Repeat(Digit, 0, 2)>>)
    >>

\* PARSERS['IDFC FIRST Bank']['patterns']['credit_limit']
IDFC_credit_limit ==
    <<
       \* r'Credit\s+Limit[:\s]*r([0-9,]+\.?\d{0,2})'
       Literal(<<"C", "r", "e", "d", "i", "t">>) \o <<Repeat(Space, 1, MAXREPEAT)>>
       \o Literal(<<"L", "i", "m", "i", "t">>) \o <<Repeat(Space \cup {":"}, 0, MAXREPEAT)>>
       \o Literal(<<"r">>) \o Group(1, <<Repeat(Range09 \cup {","}, 1, MAXREPEAT)>>
       \o <<Repeat({"."}, 0, 1)>> \o <<Repeat(Digit, 0, 2)>>)
    >>

\* PARSERS['IDFC FIRST Bank']['patterns']['available_credit']
IDFC_available_credit ==
    <<
       \* r'Available\s+Credit\s+Limit[:\s]*r([0-9,]+\.?\d{0,2})'
       Literal(<<"A", "v", "a", "i", "l", "a", "b", "l", "e">>)
       \o <<Repeat(Space, 1, MAXREPEAT)>> \o Literal(<<"C", "r", "e", "d", "i", "t">>)
       \o <<Repeat(Space, 1, MAXREPEAT)>> \o Literal(<<"L", "i", "m", "i", "t">>)
       \o <<Repeat(Space \cup {":"}, 0, MAXREPEAT)>> \o Literal(<<"r">>)
       \o Group(1, <<Repeat(Range09 \cup {","}, 1, MAXREPEAT)>> \o <<Repeat({"."}, 0, 1)>>
       \o <<Repeat(Digit, 0, 2)>>)
    >>

\* PARSERS['RBL Bank']['identifier']
RBL_identifier ==
    <<
       \* r'RBL\s+Bank'
       Literal(<<"R", "B", "L">>) \o <<Repeat(Space, 1, MAXREPEAT)>>
       \o Literal(<<"B", "a", "n", "k">>),
       \* r'rblbank\.com'
       Literal(<<"r", "b", "l", "b", "a", "n", "k", ".", "c", "o", "m">>),
       \* r'L65191PN1943PLC007308'
       Literal(<<"L", "6", "5", "1", "9", "1", "P", "N", "1", "9", "4", "3", "P", "L", "C", "0", "0", "7", "3", "0", "8">>)
    >>

\* PARSERS['RBL Bank']['patterns']['card_number']
RBL_card_number ==
    <<
       \* r'(\d{4}\s*XXXX\s*XXXX\s*\d{4})'
       Group(1, <<Repeat(Digit, 4, 4)>> \o <<Repeat(Space, 0, MAXREPEAT)>>
       \o Literal(<<"X", "X", "X", "X">>) \o <<Repeat(Space, 0, MAXREPEAT)>>
       \o Literal(<<"X", "X", "X", "X">>) \o <<Repeat(Space, 0, MAXREPEAT)>>
       \o <<Repeat(Digit, 4, 4)>>),
       \* r'(\d{4}\s*X{4}\s*X{4}\s*\d{4})'
       Group(1, <<Repeat(Digit, 4, 4)>> \o <<Repeat(Space, 0, MAXREPEAT)>>
       \o <<Repeat({"X"}, 4, 4)>> \o <<Repeat(Space, 0, MAXREPEAT)>>
       \o <<Repeat({"X"}, 4, 4)>> \o <<Repeat(Space, 0, MAXREPEAT)>>
       \o <<Repeat(Digit, 4, 4)>>)
    >>

\* PARSERS['RBL Bank']['patterns']['statement_date']
RBL_statement_date ==
    <<
       \* r'(\d{2}\/\d{2}\/\d{4})\s*to\s*(\d{2}\/\d{2}\/\d{4})'
       Group(1, <<Repeat(Digit, 2, 2)>> \o Literal(<<"/">>) \o <<Repeat(Digit, 2, 2)>>
       \o Literal(<<"/">>) \o <<Repeat(Digit, 4, 4)>>) \o <<Repeat(Space, 0, MAXREPEAT)>>
       \o Literal(<<"t", "o">>) \o <<Repeat(Space, 0, MAXREPEAT)>>
       \o Group(2, <<Repeat(Digit, 2, 2)>> \o Literal(<<"/">>) \o <<Repeat(Digit, 2, 2)>>
       \o Literal(<<"/">>) \o <<Repeat(Digit, 4, 4)>>)
    >>

\* PARSERS['RBL Bank']['patterns']['payment_due_date']
RBL_payment_due_date ==
    <<
       \* r'Immediate(\d{2}\/\d{2}\/\d{4})'
       Literal(<<"I", "m", "m", "e", "d", "i", "a", "t", "e">>)
       \o Group(1, <<Repeat(Digit, 2, 2)>> \o Literal(<<"/">>) \o <<Repeat(Digit, 2, 2)>>
       \o Literal(<<"/">>) \o <<Repeat(Digit, 4, 4)>>)
    >>

\* PARSERS['RBL Bank']['patterns']['total_amount_due']
RBL_total_amount_due ==
    <<
       \* r'([0-9,]+\.?\d{0,2})\s*\n\s*([0-9,]+\.?\d{0,2})\s*\n\s*0\.00'
       Group(1, <<Repeat(Range09 \cup {","}, 1, MAXREPEAT)>> \o <<Repeat({"."}, 0, 1)>>
       \o <<Repeat(Digit, 0, 2)>>) \o <<Repeat(Space, 0, MAXREPEAT)>> \o Literal(<<"\n">>)
       \o <<Repeat(Space, 0, MAXREPEAT)>>
       \o Group(2, <<Repeat(Range09 \cup {","}, 1, MAXREPEAT)>> \o <<Repeat({"."}, 0, 1)>>
       \o <<Repeat(Digit, 0, 2)>>) \o <<Repeat(Space, 0, MAXREPEAT)>> \o Literal(<<"\n">>)
       \o <<Repeat(Space, 0, MAXREPEAT)>> \o Literal(<<"0", ".", "0", "0">>)
    >>

\* PARSERS['RBL Bank']['patterns']['minimum_amount_due']
RBL_minimum_amount_due ==
    <<
       \* r'Minimum[^0-9]*([0-9,]+\.?\d{0,2})'
       Literal(<<"M", "i", "n", "i", "m", "u", "m">>)
       \o <<RepeatNot(Range09, 0, MAXREPEAT)>>
       \o Group(1, <<Repeat(Range09 \cup {","}, 1, MAXREPEAT)>> \o <<Repeat({"."}, 0, 1)>>
       \o <<Repeat(Digit, 0, 2)>>)
    >>

\* PARSERS['RBL Bank']['patterns']['credit_limit']
RBL_credit_limit ==
    <<
       \* r'([0-9,]+\.?\d{0,2})\s*0\.00\s*0\.00'
       Group(1, <<Repeat(Range09 \cup {","}, 1, MAXREPEAT)>> \o <<Repeat({"."}, 0, 1)>>
       \o <<Repeat(Digit, 0, 2)>>) \o <<Repeat(Space, 0, MAXREPEAT)>>
       \o Literal(<<"0", ".", "0", "0">>) \o <<Repeat(Space, 0, MAXREPEAT)>>
       \o Literal(<<"0", ".", "0", "0">>)
    >>

\* PARSERS['American Express']['identifier']
Amex_identifier ==
    <<
       \* r'American\s+Express'
       Literal(<<"A", "m", "e", "r", "i", "c", "a", "n">>)
       \o <<Repeat(Space, 1, MAXREPEAT)>> \o Literal(<<"E", "x", "p", "r", "e", "s", "s">>),
       \* r'americanexpress\.com'
       Literal(<<"a", "m", "e", "r", "i", "c", "a", "n", "e", "x", "p", "r", "e", "s", "s", ".", "c", "o", "m">>),
       \* r'AMEX'
       Literal(<<"A", "M", "E", "X">>)
    >>

\* PARSERS['American Express']['patterns']['card_number']
Amex_card_number ==
    <<
       \* r'Account\s+Ending\s*(\d-\d{5})'
       Literal(<<"A", "c", "c", "o", "u", "n", "t">>) \o <<Repeat(Space, 1, MAXREPEAT)>>
       \o Literal(<<"E", "n", "d", "i", "n", "g">>) \o <<Repeat(Space, 0, MAXREPEAT)>>
       \o Group(1, <<Repeat(Digit, 1, 1)>> \o Literal(<<"-">>) \o <<Repeat(Digit, 5, 5)>>),
       \* r'Card\s+Ending\s*(\d-\d{5})'
       Literal(<<"C", "a", "r", "d">>) \o <<Repeat(Space, 1, MAXREPEAT)>>
       \o Literal(<<"E", "n", "d", "i", "n", "g">>) \o <<Repeat(Space, 0, MAXREPEAT)>>
       \o Group(1, <<Repeat(Digit, 1, 1)>> \o Literal(<<"-">>) \o <<Repeat(Digit, 5, 5)>>)
    >>

\* PARSERS['American Express']['patterns']['statement_date']
Amex_statement_date ==
    <<
       \* r'Closing\s+Date[:\s]*(\d{2}\/\d{2}\/\d{2,4})'
       Literal(<<"C", "l", "o", "s", "i", "n", "g">>) \o <<Repeat(Space, 1, MAXREPEAT)>>
       \o Literal(<<"D", "a", "t", "e">>) \o <<Repeat(Space \cup {":"}, 0, MAXREPEAT)>>
       \o Group(1, <<Repeat(Digit, 2, 2)>> \o Literal(<<"/">>) \o <<Repeat(Digit, 2, 2)>>
       \o Literal(<<"/">>) \o <<Repeat(Digit, 2, 4)>>)
    >>

\* PARSERS['American Express']['patterns']['payment_due_date']
Amex_payment_due_date ==
    <<
       \* r'Payment\s+Due\s+Date[:\s]*(\d{2}\/\d{2}\/\d{2,4})'
       Literal(<<"P", "a", "y", "m", "e", "n", "t">>) \o <<Repeat(Space, 1, MAXREPEAT)>>
       \o Literal(<<"D", "u", "e">>) \o <<Repeat(Space, 1, MAXREPEAT)>>
       \o Literal(<<"D", "a", "t", "e">>) \o <<Repeat(Space \cup {":"}, 0, MAXREPEAT)>>
       \o Group(1, <<Repeat(Digit, 2, 2)>> \o Literal(<<"/">>) \o <<Repeat(Digit, 2, 2)>>
       \o Literal(<<"/">>) \o <<Repeat(Digit, 2, 4)>>)
    >>

\* PARSERS['American Express']['patterns']['total_amount_due']
Amex_total_amount_due ==
    <<
       \* r'New\s+Balance[:\s]*\$([0-9,]+\.?\d{0,2})'
       Literal(<<"N", "e", "w">>) \o <<Repeat(Space, 1, MAXREPEAT)>>
       \o Literal(<<"B", "a", "l", "a", "n", "c", "e">>)
       \o <<Repeat(Space \cup {":"}, 0, MAXREPEAT)>> \o Literal(<<"$">>)
       \o Group(1, <<Repeat(Range09 \cup {","}, 1, MAXREPEAT)>> \o <<Repeat({"."}, 0, 1)>>
       \o <<Repeat(Digit, 0, 2)>>),
       \* r'Total[:\s]*\$([0-9,]+\.?\d{0,2})'
       Literal(<<"T", "o", "t", "a", "l">>) \o <<Repeat(Space \cup {":"}, 0, MAXREPEAT)>>
       \o Literal(<<"$">>) \o Group(1, <<Repeat(Range09 \cup {","}, 1, MAXREPEAT)>>
       \o <<Repeat({"."}, 0, 1)>> \o <<Repeat(Digit, 0, 2)>>)
    >>

\* PARSERS['American Express']['patterns']['minimum_amount_due']
Amex_minimum_amount_due ==
    <<
       \* r'Minimum\s+Payment\s+Due[:\s]*\$([0-9,]+\.?\d{0,2})'
       Literal(<<"M", "i", "n", "i", "m", "u", "m">>) \o <<Repeat(Space, 1, MAXREPEAT)>>
       \o Literal(<<"P", "a", "y", "m", "e", "n", "t">>) \o <<Repeat(Space, 1, MAXREPEAT)>>
       \o Literal(<<"D", "u", "e">>) \o <<Repeat(Space \cup {":"}, 0, MAXREPEAT)>>
       \o Literal(<<"$">>) \o Group(1, <<Repeat(Range09 \cup {","}, 1, MAXREPEAT)>>
       \o <<Repeat({"."}, 0, 1)>> \o <<Repeat(Digit, 0, 2)>>)
    >>

\* PARSERS['American Express']['patterns']['credit_limit']
Amex_credit_limit ==
    <<
       \* r'Pay\s+Over\s+Time\s+Limit[:\s]*\$([0-9,]+\.?\d{0,2})'
       Literal(<<"P", "a", "y">>) \o <<Repeat(Space, 1, MAXREPEAT)>>
       \o Literal(<<"O", "v", "e", "r">>) \o <<Repeat(Space, 1, MAXREPEAT)>>
       \o Literal(<<"T", "i", "m", "e">>) \o <<Repeat(Space, 1, MAXREPEAT)>>
       \o Literal(<<"L", "i", "m", "i", "t">>) \o <<Repeat(Space \cup {":"}, 0, MAXREPEAT)>>
       \o Literal(<<"$">>) \o Group(1, <<Repeat(Range09 \cup {","}, 1, MAXREPEAT)>>
       \o <<Repeat({"."}, 0, 1)>> \o <<Repeat(Digit, 0, 2)>>),
       \* r'Credit\s+Limit[:\s]*\$([0-9,]+\.?\d{0,2})'
       Literal(<<"C", "r", "e", "d", "i", "t">>) \o <<Repeat(Space, 1, MAXREPEAT)>>
       \o Literal(<<"L", "i", "m", "i", "t">>) \o <<Repeat(Space \cup {":"}, 0, MAXREPEAT)>>
       \o Literal(<<"$">>) \o Group(1, <<Repeat(Range09 \cup {","}, 1, MAXREPEAT)>>
       \o <<Repeat({"."}, 0, 1)>> \o <<Repeat(Digit, 0, 2)>>)
    >>

\* PARSERS['American Express']['patterns']['available_credit']
Amex_available_credit ==
    <<
       \* r'Available\s+Pay\s+Over\s+Time\s+Limit[:\s]*\$([0-9,]+\.?\d{0,2})'
       Literal(<<"A", "v", "a", "i", "l", "a", "b", "l", "e">>)
       \o <<Repeat(Space, 1, MAXREPEAT)>> \o Literal(<<"P", "a", "y">>)
       \o <<Repeat(Space, 1, MAXREPEAT)>> \o Literal(<<"O", "v", "e", "r">>)
       \o <<Repeat(Space, 1, MAXREPEAT)>> \o Literal(<<"T", "i", "m", "e">>)
       \o <<Repeat(Space, 1, MAXREPEAT)>> \o Literal(<<"L", "i", "m", "i", "t">>)
       \o <<Repeat(Space \cup {":"}, 0, MAXREPEAT)>> \o Literal(<<"$">>)
       \o Group(1, <<Repeat(Range09 \cup {","}, 1, MAXREPEAT)>> \o <<Repeat({"."}, 0, 1)>>
       \o <<Repeat(Digit, 0, 2)>>)
    >>

\* PARSERS['American Express']['patterns']['previous_balance']
Amex_previous_balance ==
    <<
       \* r'Previous\s+Balance[:\s]*\$([0-9,]+\.?\d{0,2})'
       Literal(<<"P", "r", "e", "v", "i", "o", "u", "s">>)
       \o <<Repeat(Space, 1, MAXREPEAT)>> \o Literal(<<"B", "a", "l", "a", "n", "c", "e">>)
       \o <<Repeat(Space \cup {":"}, 0, MAXREPEAT)>> \o Literal(<<"$">>)
       \o Group(1, <<Repeat(Range09 \cup {","}, 1, MAXREPEAT)>> \o <<Repeat({"."}, 0, 1)>>
       \o <<Repeat(Digit, 0, 2)>>)
    >>

\* the registry, in the dict's insertion order (src/main.py:58-231)
PARSERS ==
    <<
       [issuer |-> "ICICI Bank",
        identifier |-> ICICI_identifier,
        patterns |-> <<
            [field |-> "card_number", patterns |-> ICICI_card_number],
            [field |-> "statement_date", patterns |-> ICICI_statement_date],
            [field |-> "payment_due_date", patterns |-> ICICI_payment_due_date],
            [field |-> "total_amount_due", patterns |-> ICICI_total_amount_due],
            [field |-> "minimum_amount_due", patterns |-> ICICI_minimum_amount_due],
            [field |-> "credit_limit", patterns |-> ICICI_credit_limit],
            [field |-> "available_credit", patterns |-> ICICI_available_credit],
            [field |-> "previous_balance", patterns |-> ICICI_previous_balance]
        >>],
       [issuer |-> "Axis Bank",
        identifier |-> Axis_identifier,
        patterns |-> <<
            [field |-> "card_number", patterns |-> Axis_card_number],
            [field |-> "statement_date", patterns |-> Axis_statement_date],
            [field |-> "payment_due_date", patterns |-> Axis_payment_due_date],
            [field |-> "total_amount_due", patterns |-> Axis_total_amount_due],
            [field |-> "minimum_amount_due", patterns |-> Axis_minimum_amount_due],
            [field |-> "credit_limit", patterns |-> Axis_credit_limit],
            [field |-> "available_credit", patterns |-> Axis_available_credit],
            [field |-> "previous_balance", patterns |-> Axis_previous_balance]
        >>],
       [issuer |-> "IDFC FIRST Bank",
        identifier |-> IDFC_identifier,
        patterns |-> <<
            [field |-> "card_number", patterns |-> IDFC_card_number],
            [field |-> "statement_date", patterns |-> IDFC_statement_date],
            [field |-> "payment_due_date", patterns |-> IDFC_payment_due_date],
            [field |-> "total_amount_due", patterns |-> IDFC_total_amount_due],
            [field |-> "minimum_amount_due", patterns |-> IDFC_minimum_amount_due],
            [field |-> "credit_limit", patterns |-> IDFC_credit_limit],
            [field |-> "available_credit", patterns |-> IDFC_available_credit]
        >>],
       [issuer |-> "RBL Bank",
        identifier |-> RBL_identifier,
        patterns |-> <<
            [field |-> "card_number", patterns |-> RBL_card_number],
            [field |-> "statement_date", patterns |-> RBL_statement_date],
            [field |-> "payment_due_date", patterns |-> RBL_payment_due_date],
            [field |-> "total_amount_due", patterns |-> RBL_total_amount_due],
            [field |-> "minimum_amount_due", patterns |-> RBL_minimum_amount_due],
            [field |-> "credit_limit", patterns |-> RBL_credit_limit]
        >>],
       [issuer |-> "American Express",
        identifier |-> Amex_identifier,
        patterns |-> <<
            [field |-> "card_number", patterns |-> Amex_card_number],
            [field |-> "statement_date", patterns |-> Amex_statement_date],
            [field |-> "payment_due_date", patterns |-> Amex_payment_due_date],
            [field |-> "total_amount_due", patterns |-> Amex_total_amount_due],
            [field |-> "minimum_amount_due", patterns |-> Amex_minimum_amount_due],
            [field |-> "credit_limit", patterns |-> Amex_credit_limit],
            [field |-> "available_credit", patterns |-> Amex_available_credit],
            [field |-> "previous_balance", patterns |-> Amex_previous_balance]
        >>]
    >>

\* r'(\d{2})-(\d{2})-(\d{4})'
ThreeGroupDate == Group(1, <<Repeat(Digit, 2, 2)>>) \o Literal(<<"-">>) \o Group(2, <<Repeat(Digit, 2, 2)>>) \o Literal(<<"-">>) \o Group(3, <<Repeat(Digit, 4, 4)>>)

\* r'\d{2}-\d{2}-\d{4}'
NoGroupDate == <<Repeat(Digit, 2, 2)>> \o Literal(<<"-">>) \o <<Repeat(Digit, 2, 2)>> \o Literal(<<"-">>) \o <<Repeat(Digit, 4, 4)>>

\* r'\s*\d{2}-\d{2}-\d{4}\s*'
NoGroupPadded == <<Repeat(Space, 0, MAXREPEAT)>> \o <<Repeat(Digit, 2, 2)>> \o Literal(<<"-">>) \o <<Repeat(Digit, 2, 2)>> \o Literal(<<"-">>) \o <<Repeat(Digit, 4, 4)>> \o <<Repeat(Space, 0, MAXREPEAT)>>

(***************************************************************************)
(* CreditCardParser                                                        *)
(***************************************************************************)

\* Python's None where a str (a character sequence) or a list is expected
None == <<"\\None">>

\* Python's None where an issuer name is expected
NoIssuer == "\\None"

\* the eight optional fields of StatementData, in declaration order
FieldNames ==
    <<"card_number", "statement_date", "payment_due_date", "total_amount_due",
      "minimum_amount_due", "credit_limit", "available_credit", "previous_balance">>

\* __post_init__ leaving errors as it was passed
post_init_KeepsNone(errors) == errors

\* __post_init__: "if self.errors is None: self.errors = []"
post_init(errors) == IF errors = None THEN <<>> ELSE errors

\* StatementData(file_name=, issuer=, parsing_status=, errors=) with the other
\* fields at their defaults (errors=None where the call passes no errors)
StatementData(file_name, issuer, parsing_status, errors) ==
    [file_name |-> file_name, issuer |-> issuer,
     card_number |-> None, statement_date |-> None, payment_due_date |-> None,
     total_amount_due |-> None, minimum_amount_due |-> None, credit_limit |-> None,
     available_credit |-> None, previous_balance |-> None,
     parsing_status |-> parsing_status, errors |-> post_init(errors)]

\* a page whose extract_text() raises
BrokenPage == <<"\\Broken">>

\* the loop over pdf.pages: the text so far plus the texts of the pages left,
\* a page without text (extract_text() is None) adding "", or the exception
RECURSIVE PageTexts(_, _)
PageTexts(pages, text) ==
    IF pages = <<>> THEN [raised |-> FALSE, value |-> text]
    ELSE IF Head(pages) = BrokenPage
         THEN [raised |-> TRUE, message |-> "page cannot be read"]
         ELSE PageTexts(Tail(pages),
                        text \o (IF Head(pages) = None THEN <<>> ELSE Head(pages)))

\* "except Exception as e: raise Exception(f'Failed to ...: {str(e)}')"
Reraise(inner) ==
    IF inner.raised
    THEN [raised |-> TRUE,
          message |-> "Failed to extract text from PDF: " \o inner.message]
    ELSE inner

\* extract_text_from_pdf: the text, or the exception it raises in place of
\* the library's.  pdf_path.file is what pdfplumber finds at the path.
extract_text_from_pdf(pdf_path) ==
    Reraise(IF pdf_path.file.opens
            THEN PageTexts(pdf_path.file.pages, <<>>)
            ELSE [raised |-> TRUE, message |-> pdf_path.file.message])

\* the issuer a, or b when a is none
OrElse(a, b) == IF a # NoIssuer THEN a ELSE b

\* IdentifyFrom with the profiles after profile k asked first
RECURSIVE IdentifyFrom_LaterProfileFirst(_, _, _, _)
IdentifyFrom_LaterProfileFirst(parsers, text, k, j) ==
    IF k > Len(parsers) THEN NoIssuer
    ELSE OrElse(IdentifyFrom_LaterProfileFirst(parsers, text, k + 1, 1),
                IF \E i \in 1..Len(parsers[k].identifier) :
                       re_search(parsers[k].identifier[i], text, {IGNORECASE}) # NoMatch
                THEN parsers[k].issuer ELSE NoIssuer)

\* identify_issuer: the loops over self.PARSERS.items() and
\* config['identifier'], at profile k, pattern j
RECURSIVE IdentifyFrom(_, _, _, _)
IdentifyFrom(parsers, text, k, j) ==
    IF k > Len(parsers) THEN NoIssuer
    ELSE IF j > Len(parsers[k].identifier) THEN IdentifyFrom(parsers, text, k + 1, 1)
         ELSE IF re_search(parsers[k].identifier[j], text, {IGNORECASE}) # NoMatch
              THEN parsers[k].issuer
              ELSE IdentifyFrom(parsers, text, k, j + 1)

\* the issuer b in place of none
Default(a, b) == IF a = NoIssuer THEN b ELSE a

\* identify_issuer falling back on the first profile
identify_issuer_FirstProfileByDefault(text) ==
    Default(IdentifyFrom(PARSERS, text, 1, 1), "ICICI Bank")

identify_issuer(text) == IdentifyFrom(PARSERS, text, 1, 1)

\* LastGroup returning groups[0]
LastGroup_FirstGroup(match, groups) ==
    IF groups # <<>> THEN groups[1] ELSE MatchGroup0(match)

\* groups[-1] if groups else match.group(0)
LastGroup(match, groups) ==
    IF groups # <<>> THEN groups[Len(groups)] ELSE MatchGroup0(match)

\* what extract_field does with the result of one re.search: return the
\* value, or go on with the patterns after pattern i
RECURSIVE ExtractFrom(_, _, _)

\* the text a, or b when a is None
OrElseText(a, b) == IF a # None THEN a ELSE b

\* OnMatch going on with the later patterns although pattern i matched
OnMatch_KeepsLooking(text, patterns, i, match) ==
    OrElseText(ExtractFrom(text, patterns, i + 1),
               IF match # NoMatch THEN LastGroup(match, MatchGroups(match)) ELSE None)

OnMatch(text, patterns, i, match) ==
    IF match # NoMatch THEN LastGroup(match, MatchGroups(match))
    ELSE ExtractFrom(text, patterns, i + 1)

\* extract_field: the loop over patterns, at pattern i
ExtractFrom(text, patterns, i) ==
    IF i > Len(patterns) THEN None
    ELSE OnMatch(text, patterns, i,
                 re_search(patterns[i], text, {IGNORECASE, MULTILINE}))

extract_field(text, patterns) == ExtractFrom(text, patterns, 1)

\* str.strip()
RECURSIVE lstrip(_)
lstrip(s) == IF s # <<>> /\ Head(s) \in Space THEN lstrip(Tail(s)) ELSE s

RECURSIVE rstrip(_)
rstrip(s) ==
    IF s # <<>> /\ s[Len(s)] \in Space THEN rstrip(SubSeq(s, 1, Len(s) - 1)) ELSE s

\* strip as str.lstrip()
strip_LeftOnly(s) == lstrip(s)

strip(s) == rstrip(lstrip(s))

\* parsers[issuer]
Lookup(parsers, issuer) ==
    parsers[CHOOSE k \in 1..Len(parsers) : parsers[k].issuer = issuer]

\* config = self.PARSERS[issuer]
Config(issuer) == Lookup(PARSERS, issuer)

\* StoreField recording the first miss only
StoreField_FirstMissOnly(field, value, acc) ==
    IF value # None /\ value # <<>>
    THEN [data |-> [acc.data EXCEPT ![field] = strip(value)],
          errors |-> acc.errors,
          calls |-> Append(acc.calls, "extract_field " \o field)]
    ELSE [data |-> acc.data,
          errors |-> IF acc.errors = <<>>
                     THEN <<"Could not extract " \o field>> ELSE acc.errors,
          calls |-> Append(acc.calls, "extract_field " \o field)]

\* "if value: setattr(data, field, value.strip()) else: errors.append(...)":
\* the record, the diagnostics and the calls made so far, after the field
\* has been attempted with this result of extract_field
StoreField(field, value, acc) ==
    IF value # None /\ value # <<>>
    THEN [data |-> [acc.data EXCEPT ![field] = strip(value)],
          errors |-> acc.errors,
          calls |-> Append(acc.calls, "extract_field " \o field)]
    ELSE [data |-> acc.data,
          errors |-> Append(acc.errors, "Could not extract " \o field),
          calls |-> Append(acc.calls, "extract_field " \o field)]

\* ExtractAll leaving the loop at the first field that is missed
RECURSIVE ExtractAll_StopsAtMiss(_, _, _, _)
ExtractAll_StopsAtMiss(text, fields, i, acc) ==
    IF i > Len(fields) \/ acc.errors # <<>> THEN acc
    ELSE ExtractAll_StopsAtMiss(text, fields, i + 1,
                                StoreField(fields[i].field,
                                           extract_field(text, fields[i].patterns), acc))

\* the loop over config['patterns'].items(), from field i on
RECURSIVE ExtractAll(_, _, _, _)
ExtractAll(text, fields, i, acc) ==
    IF i > Len(fields) THEN acc
    ELSE ExtractAll(text, fields, i + 1,
                    StoreField(fields[i].field,
                               extract_field(text, fields[i].patterns), acc))

critical_fields == <<"card_number", "total_amount_due", "payment_due_date">>

\* Classify demoting a record in which any of the eight fields is empty
Classify_EveryFieldNeeded(data, errors) ==
    IF errors # <<>> \/ \E f \in 1..Len(FieldNames) : data[FieldNames[f]] = None
    THEN [data EXCEPT
            !.errors = errors,
            !.parsing_status =
                IF \A c \in 1..Len(critical_fields) : data[critical_fields[c]] = None
                THEN "failed" ELSE "partial"]
    ELSE data

\* Classify with "any" in place of "all"
Classify_AnyCriticalMissing(data, errors) ==
    IF errors # <<>>
    THEN [data EXCEPT
            !.errors = errors,
            !.parsing_status =
                IF \E c \in 1..Len(critical_fields) : data[critical_fields[c]] = None
                THEN "failed" ELSE "partial"]
    ELSE data

\* "if errors:" and what follows: the diagnostics and the status they give
Classify(data, errors) ==
    IF errors # <<>>
    THEN [data EXCEPT
            !.errors = errors,
            !.parsing_status =
                IF \A c \in 1..Len(critical_fields) : data[critical_fields[c]] = None
                THEN "failed" ELSE "partial"]
    ELSE data

\* the end of the try block: the record with its status, returned
ReturnData(done) ==
    [raised |-> FALSE, value |-> Classify(done.data, done.errors), calls |-> done.calls]

\* UnknownIssuer raising in place of returning a record
UnknownIssuer_Raises(file_name) ==
    [raised |-> TRUE, message |-> "Could not identify credit card issuer",
     calls |-> <<"extract_text_from_pdf", "identify_issuer">>]

\* "if not issuer: return StatementData(...)"
UnknownIssuer(file_name) ==
    [raised |-> FALSE,
     value |-> StatementData(file_name, "Unknown", "failed",
                             <<"Could not identify credit card issuer">>),
     calls |-> <<"extract_text_from_pdf", "identify_issuer">>]

\* the try block from "if not issuer" on, given the text and the issuer found
WithIssuer(file_name, text, issuer) ==
    IF issuer = NoIssuer \/ issuer = ""
    THEN UnknownIssuer(file_name)
    ELSE ReturnData(ExtractAll(text, Config(issuer).patterns, 1,
                        [data |-> StatementData(file_name, issuer, "success", None),
                         errors |-> <<>>,
                         calls |-> <<"extract_text_from_pdf", "identify_issuer">>]))

\* the try block after its first statement, given what extract_text_from_pdf
\* returned or raised: an exception leaves the block at once
WithText(file_name, text) ==
    IF text.raised
    THEN [raised |-> TRUE, message |-> text.message,
          calls |-> <<"extract_text_from_pdf">>]
    ELSE WithIssuer(file_name, text.value, identify_issuer(text.value))

\* the outcome of a try block that called extract_text_from_pdf a second
\* time after the call had failed
Retried(try) ==
    IF try.raised THEN [try EXCEPT !.calls = <<"extract_text_from_pdf">> \o @] ELSE try

\* TryBlock extracting the text again after a failure
TryBlock_RetriesOnce(pdf_path, file_name) ==
    Retried(WithText(file_name, extract_text_from_pdf(pdf_path)))

\* the try block of parse_statement: the record it returns or the exception
\* that leaves it, and the methods of self it called, in order
TryBlock(pdf_path, file_name) == WithText(file_name, extract_text_from_pdf(pdf_path))

\* ExceptClause without the except clause: the exception leaves parse_statement
ExceptClause_Propagates(file_name, try) == try

\* "except Exception as e": an exception of the try block becomes an error
\* record; a record returned by the block is returned as it is
ExceptClause(file_name, try) ==
    IF try.raised
    THEN [raised |-> FALSE,
          value |-> StatementData(file_name, "Error", "error", <<try.message>>),
          calls |-> try.calls]
    ELSE try

\* parse_statement: what it returns (nothing leaves it)
parse_statement(pdf_path) ==
    ExceptClause(pdf_path.name, TryBlock(pdf_path, pdf_path.name))

\* an ICICI Bank statement: a header line, then one line per field
SampleICICI ==
    <<
      \* ICICI Bank Credit Card\n
      <<"I", "C", "I", "C", "I", " ", "B", "a", "n", "k", " ", "C", "r", "e", "d", "i", "t",
        " ", "C", "a", "r", "d", "\n">>,
      \* 4375XXXXXXXX1234\n
      <<"4", "3", "7", "5", "X", "X", "X", "X", "X", "X", "X", "X", "1", "2", "3", "4", "\n">>,
      \* STATEMENT DATE 12 Dec, 2024\n
      <<"S", "T", "A", "T", "E", "M", "E", "N", "T", " ", "D", "A", "T", "E", " ", "1", "2",
        " ", "D", "e", "c", ",", " ", "2", "0", "2", "4", "\n">>,
      \* PAYMENT DUE DATE 05 Jan, 2025\n
      <<"P", "A", "Y", "M", "E", "N", "T", " ", "D", "U", "E", " ", "D", "A", "T", "E", " ",
        "0", "5", " ", "J", "a", "n", ",", " ", "2", "0", "2", "5", "\n">>,
      \* Total Amount due \u20b912,345.67\n
      <<"T", "o", "t", "a", "l", " ", "A", "m", "o", "u", "n", "t", " ", "d", "u", "e", " ",
        Rupee, "1", "2", ",", "3", "4", "5", ".", "6", "7", "\n">>,
      \* Minimum Amount due \u20b9620.00\n
      <<"M", "i", "n", "i", "m", "u", "m", " ", "A", "m", "o", "u", "n", "t", " ", "d", "u",
        "e", " ", Rupee, "6", "2", "0", ".", "0", "0", "\n">>,
      \* Credit Limit (Including cash) \u20b92,00,000.00\n
      <<"C", "r", "e", "d", "i", "t", " ", "L", "i", "m", "i", "t", " ", "(", "I", "n", "c",
        "l", "u", "d", "i", "n", "g", " ", "c", "a", "s", "h", ")", " ", Rupee, "2", ",", "0",
        "0", ",", "0", "0", "0", ".", "0", "0", "\n">>,
      \* Available Credit (Including cash) \u20b91,87,654.33\n
      <<"A", "v", "a", "i", "l", "a", "b", "l", "e", " ", "C", "r", "e", "d", "i", "t", " ",
        "(", "I", "n", "c", "l", "u", "d", "i", "n", "g", " ", "c", "a", "s", "h", ")", " ",
        Rupee, "1", ",", "8", "7", ",", "6", "5", "4", ".", "3", "3", "\n">>,
      \* Previous Balance \u20b98,000.00\n
      <<"P", "r", "e", "v", "i", "o", "u", "s", " ", "B", "a", "l", "a", "n", "c", "e", " ",
        Rupee, "8", ",", "0", "0", "0", ".", "0", "0", "\n">>
    >>

\* an Axis Bank statement
SampleAxis ==
    <<
      \* www.axisbank.com\n
      <<"w", "w", "w", ".", "a", "x", "i", "s", "b", "a", "n", "k", ".", "c", "o", "m", "\n">>,
      \* Card No: 45145700****5541\n
      <<"C", "a", "r", "d", " ", "N", "o", ":", " ", "4", "5", "1", "4", "5", "7", "0", "0",
        "*", "*", "*", "*", "5", "5", "4", "1", "\n">>,
      \* 16/11/2024 - 15/12/2024\n
      <<"1", "6", "/", "1", "1", "/", "2", "0", "2", "4", " ", "-", " ", "1", "5", "/", "1",
        "2", "/", "2", "0", "2", "4", "\n">>,
      \* Payment Due Date 04/01/2025\n
      <<"P", "a", "y", "m", "e", "n", "t", " ", "D", "u", "e", " ", "D", "a", "t", "e", " ",
        "0", "4", "/", "0", "1", "/", "2", "0", "2", "5", "\n">>,
      \* Total Payment Due 23,456.78 Dr\n
      <<"T", "o", "t", "a", "l", " ", "P", "a", "y", "m", "e", "n", "t", " ", "D", "u", "e",
        " ", "2", "3", ",", "4", "5", "6", ".", "7", "8", " ", "D", "r", "\n">>,
      \* Minimum Payment Due 1,200.00 Dr\n
      <<"M", "i", "n", "i", "m", "u", "m", " ", "P", "a", "y", "m", "e", "n", "t", " ", "D",
        "u", "e", " ", "1", ",", "2", "0", "0", ".", "0", "0", " ", "D", "r", "\n">>,
      \* Credit Limit 1,50,000.00\n
      <<"C", "r", "e", "d", "i", "t", " ", "L", "i", "m", "i", "t", " ", "1", ",", "5", "0",
        ",", "0", "0", "0", ".", "0", "0", "\n">>,
      \* Available Credit Limit 1,26,543.22\n
      <<"A", "v", "a", "i", "l", "a", "b", "l", "e", " ", "C", "r", "e", "d", "i", "t", " ",
        "L", "i", "m", "i", "t", " ", "1", ",", "2", "6", ",", "5", "4", "3", ".", "2", "2",
        "\n">>,
      \* Previous Balance 10,000.00 Dr\n
      <<"P", "r", "e", "v", "i", "o", "u", "s", " ", "B", "a", "l", "a", "n", "c", "e", " ",
        "1", "0", ",", "0", "0", "0", ".", "0", "0", " ", "D", "r", "\n">>
    >>

\* an IDFC FIRST Bank statement (seven fields)
SampleIDFC ==
    <<
      \* IDFC FIRST Bank\n
      <<"I", "D", "F", "C", " ", "F", "I", "R", "S", "T", " ", "B", "a", "n", "k", "\n">>,
      \* Card Number: XXXX 1234\n
      <<"C", "a", "r", "d", " ", "N", "u", "m", "b", "e", "r", ":", " ", "X", "X", "X", "X",
        " ", "1", "2", "3", "4", "\n">>,
      \* 21/11/2024 - 20/12/2024\n
      <<"2", "1", "/", "1", "1", "/", "2", "0", "2", "4", " ", "-", " ", "2", "0", "/", "1",
        "2", "/", "2", "0", "2", "4", "\n">>,
      \* Payment Due Date 08/01/2025\n
      <<"P", "a", "y", "m", "e", "n", "t", " ", "D", "u", "e", " ", "D", "a", "t", "e", " ",
        "0", "8", "/", "0", "1", "/", "2", "0", "2", "5", "\n">>,
      \* Total Amount Due r5,432.10\n
      <<"T", "o", "t", "a", "l", " ", "A", "m", "o", "u", "n", "t", " ", "D", "u", "e", " ",
        "r", "5", ",", "4", "3", "2", ".", "1", "0", "\n">>,
      \* Minimum Amount Due r271.61\n
      <<"M", "i", "n", "i", "m", "u", "m", " ", "A", "m", "o", "u", "n", "t", " ", "D", "u",
        "e", " ", "r", "2", "7", "1", ".", "6", "1", "\n">>,
      \* Credit Limit r1,00,000\n
      <<"C", "r", "e", "d", "i", "t", " ", "L", "i", "m", "i", "t", " ", "r", "1", ",", "0",
        "0", ",", "0", "0", "0", "\n">>,
      \* Available Credit Limit r94,567.90\n
      <<"A", "v", "a", "i", "l", "a", "b", "l", "e", " ", "C", "r", "e", "d", "i", "t", " ",
        "L", "i", "m", "i", "t", " ", "r", "9", "4", ",", "5", "6", "7", ".", "9", "0", "\n">>
    >>

\* an RBL Bank statement (six fields; the amounts come as bare columns)
SampleRBL ==
    <<
      \* RBL Bank\n
      <<"R", "B", "L", " ", "B", "a", "n", "k", "\n">>,
      \* 5243 XXXX XXXX 9876\n
      <<"5", "2", "4", "3", " ", "X", "X", "X", "X", " ", "X", "X", "X", "X", " ", "9", "8",
        "7", "6", "\n">>,
      \* 11/11/2024 to 10/12/2024\n
      <<"1", "1", "/", "1", "1", "/", "2", "0", "2", "4", " ", "t", "o", " ", "1", "0", "/",
        "1", "2", "/", "2", "0", "2", "4", "\n">>,
      \* Immediate30/12/2024\n
      <<"I", "m", "m", "e", "d", "i", "a", "t", "e", "3", "0", "/", "1", "2", "/", "2", "0",
        "2", "4", "\n">>,
      \* 7,890.12\n7,890.12\n0.00\n
      <<"7", ",", "8", "9", "0", ".", "1", "2", "\n", "7", ",", "8", "9", "0", ".", "1", "2",
        "\n", "0", ".", "0", "0", "\n">>,
      \* Minimum Amount Due 394.51\n
      <<"M", "i", "n", "i", "m", "u", "m", " ", "A", "m", "o", "u", "n", "t", " ", "D", "u",
        "e", " ", "3", "9", "4", ".", "5", "1", "\n">>,
      \* 80,000.00 0.00 0.00\n
      <<"8", "0", ",", "0", "0", "0", ".", "0", "0", " ", "0", ".", "0", "0", " ", "0", ".",
        "0", "0", "\n">>
    >>

\* an American Express statement
SampleAmex ==
    <<
      \* American Express\n
      <<"A", "m", "e", "r", "i", "c", "a", "n", " ", "E", "x", "p", "r", "e", "s", "s", "\n">>,
      \* Account Ending 4-51006\n
      <<"A", "c", "c", "o", "u", "n", "t", " ", "E", "n", "d", "i", "n", "g", " ", "4", "-",
        "5", "1", "0", "0", "6", "\n">>,
      \* Closing Date 12/18/24\n
      <<"C", "l", "o", "s", "i", "n", "g", " ", "D", "a", "t", "e", " ", "1", "2", "/", "1",
        "8", "/", "2", "4", "\n">>,
      \* Payment Due Date 01/12/25\n
      <<"P", "a", "y", "m", "e", "n", "t", " ", "D", "u", "e", " ", "D", "a", "t", "e", " ",
        "0", "1", "/", "1", "2", "/", "2", "5", "\n">>,
      \* New Balance $1,234.56\n
      <<"N", "e", "w", " ", "B", "a", "l", "a", "n", "c", "e", " ", "$", "1", ",", "2", "3",
        "4", ".", "5", "6", "\n">>,
      \* Minimum Payment Due $40.00\n
      <<"M", "i", "n", "i", "m", "u", "m", " ", "P", "a", "y", "m", "e", "n", "t", " ", "D",
        "u", "e", " ", "$", "4", "0", ".", "0", "0", "\n">>,
      \* Credit Limit $10,000.00\n
      <<"C", "r", "e", "d", "i", "t", " ", "L", "i", "m", "i", "t", " ", "$", "1", "0", ",",
        "0", "0", "0", ".", "0", "0", "\n">>,
      \* Available Pay Over Time Limit $8,765.44\n
      <<"A", "v", "a", "i", "l", "a", "b", "l", "e", " ", "P", "a", "y", " ", "O", "v", "e",
        "r", " ", "T", "i", "m", "e", " ", "L", "i", "m", "i", "t", " ", "$", "8", ",", "7",
        "6", "5", ".", "4", "4", "\n">>,
      \* Previous Balance $2,000.00\n
      <<"P", "r", "e", "v", "i", "o", "u", "s", " ", "B", "a", "l", "a", "n", "c", "e", " ",
        "$", "2", ",", "0", "0", "0", ".", "0", "0", "\n">>
    >>

\* lines for texts that mix issuers or carry no issuer
OtherLines ==
    <<
      \* Dear customer, your statement is enclosed.\n
      <<"D", "e", "a", "r", " ", "c", "u", "s", "t", "o", "m", "e", "r", ",", " ", "y", "o",
        "u", "r", " ", "s", "t", "a", "t", "e", "m", "e", "n", "t", " ", "i", "s", " ", "e",
        "n", "c", "l", "o", "s", "e", "d", ".", "\n">>,
      \* icicibank.com\n
      <<"i", "c", "i", "c", "i", "b", "a", "n", "k", ".", "c", "o", "m", "\n">>,
      \* Visit AXIS  BANK today\n
      <<"V", "i", "s", "i", "t", " ", "A", "X", "I", "S", " ", " ", "B", "A", "N", "K", " ",
        "t", "o", "d", "a", "y", "\n">>,
      \* CIN\nL65190GJ1994PLC021012\n
      <<"C", "I", "N", "\n", "L", "6", "5", "1", "9", "0", "G", "J", "1", "9", "9", "4", "P",
        "L", "C", "0", "2", "1", "0", "1", "2", "\n">>,
      \* CIN : L65190GJ1994PLC021012\n
      <<"C", "I", "N", " ", ":", " ", "L", "6", "5", "1", "9", "0", "G", "J", "1", "9", "9",
        "4", "P", "L", "C", "0", "2", "1", "0", "1", "2", "\n">>,
      \* amex\n
      <<"a", "m", "e", "x", "\n">>,
      \* idfcfirstbank.com\n
      <<"i", "d", "f", "c", "f", "i", "r", "s", "t", "b", "a", "n", "k", ".", "c", "o", "m",
        "\n">>,
      \* RBLBank\n
      <<"R", "B", "L", "B", "a", "n", "k", "\n">>,
      \* Total Amount due: Rs. 12,345.67\n
      <<"T", "o", "t", "a", "l", " ", "A", "m", "o", "u", "n", "t", " ", "d", "u", "e", ":",
        " ", "R", "s", ".", " ", "1", "2", ",", "3", "4", "5", ".", "6", "7", "\n">>,
      \* Payment Due Date: 05 Jan, 2025\n
      <<"P", "a", "y", "m", "e", "n", "t", " ", "D", "u", "e", " ", "D", "a", "t", "e", ":",
        " ", "0", "5", " ", "J", "a", "n", ",", " ", "2", "0", "2", "5", "\n">>
    >>

\* texts for extract_field
FieldTexts ==
    <<
      \* 4375XXXXXXXX1234\n
      <<"4", "3", "7", "5", "X", "X", "X", "X", "X", "X", "X", "X", "1", "2", "3", "4", "\n">>,
      \* 4375123412341234\n
      <<"4", "3", "7", "5", "1", "2", "3", "4", "1", "2", "3", "4", "1", "2", "3", "4", "\n">>,
      \* Total Payment Due 23,456.78 Dr\n
      <<"T", "o", "t", "a", "l", " ", "P", "a", "y", "m", "e", "n", "t", " ", "D", "u", "e",
        " ", "2", "3", ",", "4", "5", "6", ".", "7", "8", " ", "D", "r", "\n">>,
      \* total amount due: 99.5\n
      <<"t", "o", "t", "a", "l", " ", "a", "m", "o", "u", "n", "t", " ", "d", "u", "e", ":",
        " ", "9", "9", ".", "5", "\n">>,
      \* Statement Generation Date: 15/12/2024\n
      <<"S", "t", "a", "t", "e", "m", "e", "n", "t", " ", "G", "e", "n", "e", "r", "a", "t",
        "i", "o", "n", " ", "D", "a", "t", "e", ":", " ", "1", "5", "/", "1", "2", "/", "2",
        "0", "2", "4", "\n">>,
      \* 16/11/2024 - 15/12/2024\n
      <<"1", "6", "/", "1", "1", "/", "2", "0", "2", "4", " ", "-", " ", "1", "5", "/", "1",
        "2", "/", "2", "0", "2", "4", "\n">>,
      \* 01-02-2024
      <<"0", "1", "-", "0", "2", "-", "2", "0", "2", "4">>,
      \*  03-04-2025 \n
      <<" ", "0", "3", "-", "0", "4", "-", "2", "0", "2", "5", " ", "\n">>,
      \* 7,890.12\n7,890.12\n0.00\n
      <<"7", ",", "8", "9", "0", ".", "1", "2", "\n", "7", ",", "8", "9", "0", ".", "1", "2",
        "\n", "0", ".", "0", "0", "\n">>
    >>

(***************************************************************************)
(* Inputs                                                                  *)
(***************************************************************************)

\* most documents in one parse_multiple call
MaxBatch == 2

\* most lines joined into one text handed to identify_issuer or extract_field
MaxLines == 2

\* a Path and what pdfplumber finds there: a file with these pages (each a
\* text, None or a BrokenPage)
Pdf(name, pages) ==
    [name |-> name, file |-> [opens |-> TRUE, pages |-> pages, message |-> ""]]

\* a Path that pdfplumber.open cannot open, and the library's message
Unreadable(name, message) ==
    [name |-> name, file |-> [opens |-> FALSE, pages |-> <<>>, message |-> message]]

\* the lines numbered in S, in order, from line i on
RECURSIVE Pick(_, _, _)
Pick(lines, S, i) ==
    IF i > Len(lines) THEN <<>>
    ELSE (IF i \in S THEN <<lines[i]>> ELSE <<>>) \o Pick(lines, S, i + 1)

\* a sample statement with any of its field lines left out, a line per page
StatementsOf(name, sample) ==
    {Pdf(name, Pick(sample, {1} \cup S, 1)) : S \in SUBSET (2..Len(sample))}

\* files that end in an error record
FailingPaths ==
    {Unreadable("corrupt.pdf", "No /Root object! - Is this really a PDF?"),
     Unreadable("missing.pdf", "[Errno 2] No such file or directory: 'missing.pdf'"),
     Pdf("torn.pdf", <<SampleICICI[1], SampleICICI[2], BrokenPage>>)}

\* files whose text names no issuer
UnknownPaths ==
    {Pdf("blank.pdf", <<>>), Pdf("scan.pdf", <<None, None>>),
     Pdf("letter.pdf", <<OtherLines[1]>>),
     Pdf("headless.pdf", Pick(SampleICICI, 2..Len(SampleICICI), 1)),
     Pdf("rblbank.pdf", <<OtherLines[8], SampleRBL[2]>>)}

\* the paths a single parse_statement call is made with
StatementPaths ==
    StatementsOf("icici.pdf", SampleICICI) \cup StatementsOf("idfc.pdf", SampleIDFC)
    \cup StatementsOf("rbl.pdf", SampleRBL)
    \cup {Pdf("axis.pdf", SampleAxis), Pdf("amex.pdf", SampleAmex),
          Pdf("axis_short.pdf", <<SampleAxis[1], None, SampleAxis[8]>>),
          Pdf("icici_e2e.pdf", <<SampleICICI[1], OtherLines[9], OtherLines[10]>>),
          Pdf("icici_e2e_letter.pdf",
              <<OtherLines[1], OtherLines[10], OtherLines[9], SampleICICI[1]>>),
          Pdf("icici_e2e_line.pdf",
              <<SubSeq(SampleICICI[1], 1, 10), <<" ">>,
                SubSeq(OtherLines[9], 1, Len(OtherLines[9]) - 1), <<" ">>,
                SubSeq(OtherLines[10], 1, Len(OtherLines[10]) - 1)>>),
          Pdf("two_issuers.pdf", <<SampleAxis[1], SampleAxis[2], SampleICICI[1]>>)}
    \cup UnknownPaths \cup FailingPaths

\* most lists returned by parse_multiple that the caller keeps
MaxHeld == 2

\* the files a batch is drawn from
BatchPaths ==
    {Pdf("icici.pdf", SampleICICI),
     Pdf("icici_e2e.pdf", <<SampleICICI[1], OtherLines[9], OtherLines[10]>>),
     Pdf("icici_header.pdf", <<SampleICICI[1]>>),
     Pdf("rbl.pdf", SampleRBL),
     Pdf("letter.pdf", <<OtherLines[1]>>),
     Pdf("blank.pdf", <<>>),
     Unreadable("corrupt.pdf", "No /Root object! - Is this really a PDF?"),
     Pdf("torn.pdf", <<SampleICICI[1], SampleICICI[2], BrokenPage>>)}

\* sequences over S of length at most n
SeqsUpTo(S, n) == UNION {[1..m -> S] : m \in 0..n}

\* the concatenation of a sequence of texts
RECURSIVE Join(_)
Join(texts) == IF texts = <<>> THEN <<>> ELSE Head(texts) \o Join(Tail(texts))

\* the batches parse_multiple is called with
Batches == SeqsUpTo(BatchPaths, MaxBatch)

\* the texts identify_issuer is called with: header and other lines, joined
IdentifyLines ==
    {SampleICICI[1], SampleAxis[1], SampleIDFC[1], SampleRBL[1], SampleAmex[1]}
    \cup {OtherLines[i] : i \in 1..Len(OtherLines)}

IdentifyTexts == {Join(ls) : ls \in SeqsUpTo(IdentifyLines, MaxLines)}

\* the texts and pattern lists extract_field is called with
ExtractTexts ==
    {Join(ls) : ls \in SeqsUpTo({FieldTexts[i] : i \in 1..Len(FieldTexts)}, MaxLines)}

PatternLists ==
    {ICICI_card_number, Axis_total_amount_due, Axis_statement_date,
     RBL_total_amount_due, IDFC_statement_date,
     <<ThreeGroupDate>>, <<NoGroupDate>>, <<NoGroupPadded, ThreeGroupDate>>}

(***************************************************************************)
(* State                                                                   *)
(***************************************************************************)

VARIABLES
    pc,         \* "idle", or where the running parse_multiple call is
    pdf_paths,  \* the argument of the running (or last) parse_multiple call
    idx,        \* the position of its loop in pdf_paths
    results,    \* self.results
    stdout,     \* the lines printed by the running (or last) parse_multiple call
    last,       \* the last call that returned: its method, argument and value
    trace,      \* what the running (or last) parse_multiple call did, in order
    held,       \* the lists returned by earlier calls that the caller has kept
    pool,       \* the documents of a batch in the hands of concurrent workers
    session_state,  \* st.session_state of the habit tracker (src/app.py)
    today,      \* the day on which the habit tracker runs
    streak      \* the streaks its calendar tab shows, or the exception

vars ==
    <<pc, pdf_paths, idx, results, stdout, last, trace, held, pool,
      session_state, today, streak>>

\* the habit tracker is another program: the parser leaves it alone
tracker == <<session_state, today, streak>>

NoCall == [method |-> "none"]

\* the habit tracker before its script has run: st.session_state is empty,
\* no day has been read and nothing is shown
NotRun == <<>>

\* CreditCardParser(): __init__ sets self.results = []
Init ==
    /\ pc = "idle"
    /\ pdf_paths = <<>>
    /\ idx = 0
    /\ results = <<>>
    /\ stdout = <<>>
    /\ last = NoCall
    /\ trace = <<>>
    /\ held = <<>>
    /\ pool = <<>>
    /\ session_state = NotRun
    /\ today = NotRun
    /\ streak = NotRun

(***************************************************************************)
(* parse_multiple                                                          *)
(***************************************************************************)

\* the status symbols of the feedback line (check mark, warning sign, cross)
StatusSymbol(parsing_status) ==
    IF parsing_status = "success" THEN "\\u2713"
    ELSE IF parsing_status = "partial" THEN "\\u26a0" ELSE "\\u2717"

\* print(f"Processing: {pdf_path.name}...")
ProcessingLine(pdf_path) == "Processing: " \o pdf_path.name \o "..."

\* print(f"  {status_symbol} {result.issuer} - {result.parsing_status}")
FeedbackLine(result) ==
    "  " \o StatusSymbol(result.parsing_status) \o " " \o result.issuer
    \o " - " \o result.parsing_status

\* print(line) while document doc is handled
Printed(doc, line) == [event |-> "print", doc |-> doc, what |-> line]

\* the calls of methods of self that parse_statement made for document doc
Called(doc, calls) ==
    [k \in 1..Len(calls) |-> [event |-> "call", doc |-> doc, what |-> calls[k]]]

\* self.results.append(result) for document doc
Appended(doc) == [event |-> "append", doc |-> doc, what |-> "self.results"]

\* LeftBehind emptying the list in place (self.results.clear())
LeftBehind_Cleared(list) == <<>>

\* "self.results = []" binds the name to a new list: the list it was bound
\* to, which an earlier call returned, is left as it is
LeftBehind(list) == list

\* what "self.results = []" does to the lists the caller holds: the one that
\* self.results was bound to is bound to it no longer
Rebind(lists) ==
    [k \in 1..Len(lists) |->
        IF lists[k].bound
        THEN [lists[k] EXCEPT !.list = LeftBehind(lists[k].list), !.bound = FALSE]
        ELSE lists[k]]

\* the call, with one of these batches: self.results = [] and the loop is
\* entered
ParseMultipleOn(batches) ==
    \E paths \in batches :
        /\ pc = "idle"
        /\ pc' = "loop"
        /\ pdf_paths' = paths
        /\ idx' = 1
        /\ results' = <<>>
        /\ stdout' = <<>>
        /\ last' = NoCall
        /\ trace' = <<>>
        /\ held' = Rebind(held)
        /\ pool' = <<>>
        /\ UNCHANGED tracker

ParseMultipleCall == ParseMultipleOn(Batches)

\* LoopBody leaving the loop at the first error record
LoopBody_StopsAtError(pdf_path, result) ==
    /\ ~result.raised
    /\ results' = Append(results, result.value)
    /\ stdout' = stdout \o <<ProcessingLine(pdf_path), FeedbackLine(result.value)>>
    /\ idx' = IF result.value.parsing_status = "error" THEN Len(pdf_paths) + 1 ELSE idx + 1
    /\ trace' = trace \o <<Printed(idx, ProcessingLine(pdf_path))>>
                       \o Called(idx, result.calls)
                       \o <<Appended(idx), Printed(idx, FeedbackLine(result.value))>>
    /\ UNCHANGED <<pc, pdf_paths, last, held, pool, tracker>>

\* LoopBody going on to the next document, without feedback, after an error
\* record
LoopBody_SilentOnError(pdf_path, result) ==
    /\ ~result.raised
    /\ results' = Append(results, result.value)
    /\ stdout' = stdout \o <<ProcessingLine(pdf_path)>>
                         \o (IF result.value.parsing_status = "error" THEN <<>>
                             ELSE <<FeedbackLine(result.value)>>)
    /\ idx' = idx + 1
    /\ trace' = trace \o <<Printed(idx, ProcessingLine(pdf_path))>>
                       \o Called(idx, result.calls)
                       \o <<Appended(idx)>>
                       \o (IF result.value.parsing_status = "error" THEN <<>>
                           ELSE <<Printed(idx, FeedbackLine(result.value))>>)
    /\ UNCHANGED <<pc, pdf_paths, last, held, pool, tracker>>

\* LoopBody with the errors list shared by the records of a batch
LoopBody_SharedErrors(pdf_path, result) ==
    /\ ~result.raised
    /\ results' = Append(results,
                         [result.value EXCEPT
                            !.errors = (IF results = <<>> THEN <<>>
                                        ELSE results[Len(results)].errors) \o @])
    /\ stdout' = stdout \o <<ProcessingLine(pdf_path), FeedbackLine(result.value)>>
    /\ idx' = idx + 1
    /\ trace' = trace \o <<Printed(idx, ProcessingLine(pdf_path))>>
                       \o Called(idx, result.calls)
                       \o <<Appended(idx), Printed(idx, FeedbackLine(result.value))>>
    /\ UNCHANGED <<pc, pdf_paths, last, held, pool, tracker>>

\* one turn of the loop, given what parse_statement returned or raised.  An
\* exception leaving parse_statement would leave parse_multiple too, after
\* the first print.
LoopBody(pdf_path, result) ==
    IF result.raised
    THEN /\ pc' = "raised"
         /\ stdout' = Append(stdout, ProcessingLine(pdf_path))
         /\ trace' = trace \o <<Printed(idx, ProcessingLine(pdf_path))>>
                            \o Called(idx, result.calls)
         /\ UNCHANGED <<pdf_paths, idx, results, last, held, pool, tracker>>
    ELSE /\ results' = Append(results, result.value)
         /\ stdout' = stdout \o <<ProcessingLine(pdf_path), FeedbackLine(result.value)>>
         /\ idx' = idx + 1
         /\ trace' = trace \o <<Printed(idx, ProcessingLine(pdf_path))>>
                            \o Called(idx, result.calls)
                            \o <<Appended(idx), Printed(idx, FeedbackLine(result.value))>>
         /\ UNCHANGED <<pc, pdf_paths, last, held, pool, tracker>>

ParseMultipleStep ==
    /\ pc = "loop"
    /\ idx <= Len(pdf_paths)
    /\ LoopBody(pdf_paths[idx], parse_statement(pdf_paths[idx]))

\* return self.results
ParseMultipleReturn ==
    /\ pc = "loop"
    /\ idx > Len(pdf_paths)
    /\ pc' = "idle"
    /\ last' = [method |-> "parse_multiple", arg |-> pdf_paths, value |-> results]
    /\ UNCHANGED <<pdf_paths, idx, results, stdout, trace, held, pool, tracker>>

\* sum(1 for r in cc_parser.results if r.parsing_status == status)
RECURSIVE Tally(_, _)
Tally(records, status) ==
    IF records = <<>> THEN 0
    ELSE (IF Head(records).parsing_status = status THEN 1 ELSE 0)
         + Tally(Tail(records), status)

\* the four numbers of main's statistics
Statistics(records) ==
    [total |-> Len(records), success |-> Tally(records, "success"),
     partial |-> Tally(records, "partial"), failed |-> Tally(records, "failed")]

\* f"Total: {total} | Success: {success} | Partial: {partial} | Failed: {failed}"
StatisticsLine(s) ==
    "Total: " \o ToString(s.total) \o " | Success: " \o ToString(s.success)
    \o " | Partial: " \o ToString(s.partial) \o " | Failed: " \o ToString(s.failed)

\* the end of main, which has called parse_multiple with at least one file:
\* the statistics are printed and the program ends
MainStatistics ==
    /\ pc = "idle"
    /\ last.method = "parse_multiple"
    /\ Len(pdf_paths) > 0
    /\ pc' = "exit"
    /\ last' = [method |-> "main", arg |-> pdf_paths, value |-> Statistics(results),
                printed |-> StatisticsLine(Statistics(results))]
    /\ UNCHANGED <<pdf_paths, idx, results, stdout, trace, held, pool, tracker>>

Next == ParseMultipleCall \/ ParseMultipleStep \/ ParseMultipleReturn \/ MainStatistics

Spec == Init /\ [][Next]_vars

(***************************************************************************)
(* Single calls of the other public methods, each on a parser that has     *)
(* not been called before (none of them changes the parser)                *)
(***************************************************************************)

IdentifyIssuerCall ==
    \E text \in IdentifyTexts :
        /\ last = NoCall
        /\ last' = [method |-> "identify_issuer", arg |-> text,
                    value |-> identify_issuer(text)]
        /\ UNCHANGED <<pc, pdf_paths, idx, results, stdout, trace, held, pool, tracker>>

ExtractFieldCall ==
    \E text \in ExtractTexts, patterns \in PatternLists :
        /\ last = NoCall
        /\ last' = [method |-> "extract_field", arg |-> text, patterns |-> patterns,
                    value |-> extract_field(text, patterns)]
        /\ UNCHANGED <<pc, pdf_paths, idx, results, stdout, trace, held, pool, tracker>>

\* what a parse_statement call leaves in last
Returned(pdf_path, result) ==
    [method |-> "parse_statement", arg |-> pdf_path, raised |-> result.raised,
     value |-> IF result.raised THEN result.message ELSE result.value,
     calls |-> result.calls]

ParseStatementCall ==
    \E pdf_path \in StatementPaths :
        /\ last = NoCall
        /\ last' = Returned(pdf_path, parse_statement(pdf_path))
        /\ UNCHANGED <<pc, pdf_paths, idx, results, stdout, trace, held, pool, tracker>>

NextCalls == IdentifyIssuerCall \/ ExtractFieldCall \/ ParseStatementCall

SpecCalls == Init /\ [][NextCalls]_vars


(***************************************************************************)
(* The documents of the batch that parse_multiple has just returned,       *)
(* handed to concurrent workers: each worker runs parse_statement on its   *)
(* document, a statement at a time, and the records are put together by    *)
(* position in the input                                                   *)
(***************************************************************************)

\* the files the batches of the pool are drawn from
PoolPaths ==
    {Pdf("rbl.pdf", SampleRBL),
     Pdf("icici_e2e.pdf", <<SampleICICI[1], OtherLines[9], OtherLines[10]>>),
     Pdf("letter.pdf", <<OtherLines[1]>>),
     Unreadable("corrupt.pdf", "No /Root object! - Is this really a PDF?")}

PoolBatches == SeqsUpTo(PoolPaths, MaxBatch)

PoolCall == ParseMultipleOn(PoolBatches)

\* the documents of the returned batch are handed out
PoolStart ==
    /\ pc = "idle"
    /\ last.method = "parse_multiple"
    /\ pc' = "pool"
    /\ pool' = [i \in 1..Len(pdf_paths) |-> [stage |-> "queued"]]
    /\ UNCHANGED <<pdf_paths, idx, results, stdout, last, trace, held, tracker>>

\* a worker's parse_statement after "text = self.extract_text_from_pdf(...)"
AfterExtract(text) == [stage |-> "text", text |-> text]

\* a worker's parse_statement after "issuer = self.identify_issuer(text)",
\* or after the except clause if the text could not be extracted
AfterIdentify(file_name, text) ==
    IF text.raised
    THEN [stage |-> "done", record |-> ExceptClause(file_name, WithText(file_name, text)).value]
    ELSE [stage |-> "issuer", text |-> text, issuer |-> identify_issuer(text.value)]

\* a worker's parse_statement at its return
AfterFields(file_name, text, issuer) ==
    [stage |-> "done",
     record |-> ExceptClause(file_name, WithIssuer(file_name, text.value, issuer)).value]

\* the next statement of the worker that has document i
WorkerStep(pdf_path, at) ==
    IF at.stage = "queued" THEN AfterExtract(extract_text_from_pdf(pdf_path))
    ELSE IF at.stage = "text" THEN AfterIdentify(pdf_path.name, at.text)
    ELSE AfterFields(pdf_path.name, at.text, at.issuer)

\* some worker runs its next statement
PoolStep ==
    \E i \in 1..Len(pool) :
        /\ pc = "pool"
        /\ pool[i].stage # "done"
        /\ pool' = [pool EXCEPT ![i] = WorkerStep(pdf_paths[i], pool[i])]
        /\ UNCHANGED <<pc, pdf_paths, idx, results, stdout, last, trace, held, tracker>>

\* every worker is done: the records, by position in the input
PoolMerge ==
    /\ pc = "pool"
    /\ \A i \in 1..Len(pool) : pool[i].stage = "done"
    /\ pc' = "idle"
    /\ last' = [method |-> "pool", arg |-> pdf_paths,
                value |-> [i \in 1..Len(pool) |-> pool[i].record]]
    /\ UNCHANGED <<pdf_paths, idx, results, stdout, trace, held, pool, tracker>>

NextPool ==
    PoolCall \/ ParseMultipleStep \/ ParseMultipleReturn
    \/ PoolStart \/ PoolStep \/ PoolMerge

SpecPool == Init /\ [][NextPool]_vars

(***************************************************************************)
(* Calls of parse_multiple on one parser by a caller that keeps the lists  *)
(* returned to it                                                          *)
(***************************************************************************)

\* the batches of a caller that calls again and again
RepeatBatches ==
    {<<>>,
     <<Pdf("letter.pdf", <<OtherLines[1]>>)>>,
     <<Unreadable("corrupt.pdf", "No /Root object! - Is this really a PDF?"),
       Pdf("letter.pdf", <<OtherLines[1]>>)>>,
     <<Pdf("icici_header.pdf", <<SampleICICI[1]>>),
       Unreadable("corrupt.pdf", "No /Root object! - Is this really a PDF?")>>}

RepeatCall == ParseMultipleOn(RepeatBatches)

\* the caller keeps the list that the last call returned, which is the list
\* self.results is bound to: what it held when returned, and what it holds
KeepReturned ==
    /\ pc = "idle"
    /\ last.method = "parse_multiple"
    /\ Len(held) < MaxHeld
    /\ \A k \in 1..Len(held) : ~held[k].bound
    /\ held' = Append(held, [returned |-> last.value, list |-> results, bound |-> TRUE])
    /\ UNCHANGED <<pc, pdf_paths, idx, results, stdout, last, trace, pool, tracker>>

NextRepeat == RepeatCall \/ ParseMultipleStep \/ ParseMultipleReturn \/ KeepReturned

SpecRepeat == Init /\ [][NextRepeat]_vars

(***************************************************************************)
(* Habit tracker (src/app.py): a Streamlit script that is run again from   *)
(* the top after every button.  st.session_state outlives the runs; the    *)
(* streaks shown on the calendar tab are computed afresh in each run.      *)
(***************************************************************************)

\* how far from the month of today the navigation is followed
MaxNav == 2

\* how many activities are added before the rest is left unexplored
MaxActivities == 2

\* the days typed into the two number inputs (of 1..31)
Days == {1, 29, 30, 31}

\* datetime.date(year, month, day), for arguments that are a date
date(year, month, day) == [year |-> year, month |-> month, day |-> day]

\* the days on which the script is run
Todays == {date(2025, 1, 1), date(2024, 3, 1), date(2025, 7, 1)}

\* calendar.isleap
isleap(year) == year % 4 = 0 /\ (year % 100 # 0 \/ year % 400 = 0)

\* calendar.mdays, from January
mdays == <<31, 28, 31, 30, 31, 30, 31, 31, 30, 31, 30, 31>>

\* calendar.monthrange(year, month)[1]
monthrange(year, month) ==
    mdays[month] + (IF month = 2 /\ isleap(year) THEN 1 ELSE 0)

DigitOf == <<"0", "1", "2", "3", "4", "5", "6", "7", "8", "9">>

\* f"{n}" of an int n >= 0
RECURSIVE Decimal(_)
Decimal(n) ==
    IF n < 10 THEN <<DigitOf[n + 1]>>
    ELSE Decimal(n \div 10) \o <<DigitOf[(n % 10) + 1]>>

\* f"{n:02d}" of an int n >= 0
Decimal02(n) == IF n < 10 THEN <<"0">> \o Decimal(n) ELSE Decimal(n)

\* f"{year}-{month:02d}-{day:02d}"
date_key(year, month, day) ==
    Decimal(year) \o <<"-">> \o Decimal02(month) \o <<"-">> \o Decimal02(day)

\* int() of a run of digits
RECURSIVE IntOf(_)
IntOf(digits) ==
    IF digits = <<>> THEN 0
    ELSE 10 * IntOf(SubSeq(digits, 1, Len(digits) - 1))
         + ((CHOOSE i \in 1..10 : DigitOf[i] = digits[Len(digits)]) - 1)

AllDigits(s) == \A i \in 1..Len(s) : s[i] \in Digit

\* where the "-" of a key are
Dashes(d) == {i \in 1..Len(d) : d[i] = "-"}

\* datetime.strptime(d, "%Y-%m-%d").date(): %Y is four digits, %m and %d are
\* one or two; a month outside 1..12 does not match the format, and a day
\* that the month does not have is refused by the date ("day is out of range
\* for month").  Both are a ValueError.
strptime(d) ==
    LET first == CHOOSE i \in Dashes(d) : \A j \in Dashes(d) : i <= j
        second == CHOOSE i \in Dashes(d) : \A j \in Dashes(d) : j <= i
        Y == SubSeq(d, 1, first - 1)
        m == SubSeq(d, first + 1, second - 1)
        dd == SubSeq(d, second + 1, Len(d))
    IN  IF /\ Cardinality(Dashes(d)) = 2
           /\ Len(Y) = 4 /\ Len(m) \in 1..2 /\ Len(dd) \in 1..2
           /\ AllDigits(Y) /\ AllDigits(m) /\ AllDigits(dd)
           /\ IntOf(Y) >= 1
           /\ IntOf(m) \in 1..12
        THEN IF IntOf(dd) \in 1..monthrange(IntOf(Y), IntOf(m))
             THEN [raised |-> FALSE, value |-> date(IntOf(Y), IntOf(m), IntOf(dd))]
             ELSE [raised |-> TRUE, message |-> "day is out of range for month"]
        ELSE [raised |-> TRUE, message |-> "time data does not match format"]

\* a < b on dates
Earlier(a, b) ==
    \/ a.year < b.year
    \/ a.year = b.year /\ a.month < b.month
    \/ a.year = b.year /\ a.month = b.month /\ a.day < b.day

\* sorted(dates, reverse=True)
RECURSIVE SortedReverse(_)
SortedReverse(dates) ==
    IF dates = {} THEN <<>>
    ELSE LET latest == CHOOSE d \in dates : \A e \in dates : ~Earlier(d, e)
         IN  <<latest>> \o SortedReverse(dates \ {latest})

\* "current = date(current.year, current.month, current.day - 1) if
\* current.day > 1 else date(current.year, <the month before, 12 before
\* January>, <its last day in current.year>)": the year stays as it is
StepBack(current) ==
    IF current.day > 1
    THEN date(current.year, current.month, current.day - 1)
    ELSE LET month == IF current.month > 1 THEN current.month - 1 ELSE 12
         IN  date(current.year, month, monthrange(current.year, month))

\* "for d in dates", with the streak so far: a date equal to current counts and moves current back,
\* an earlier one ends the loop, a later one is passed over
RECURSIVE StreakLoop(_, _, _, _)
StreakLoop(dates, i, so_far, current) ==
    IF i > Len(dates) THEN so_far
    ELSE IF dates[i] = current
         THEN StreakLoop(dates, i + 1, so_far + 1, StepBack(current))
         ELSE IF Earlier(dates[i], current) THEN so_far
              ELSE StreakLoop(dates, i + 1, so_far, current)

\* calculate_streak(habit_data, end_date): the list comprehension parses
\* every key before anything else, so one key that is no date raises
calculate_streak(habit_data, end_date) ==
    LET parsed == [d \in DOMAIN habit_data.count |-> strptime(d)]
        dates == SortedReverse({parsed[d].value : d \in DOMAIN parsed})
    IN  IF \E d \in DOMAIN parsed : parsed[d].raised
        THEN [raised |-> TRUE,
              message |-> parsed[CHOOSE d \in DOMAIN parsed : parsed[d].raised].message]
        ELSE [raised |-> FALSE,
              value |-> IF dates = <<>> THEN 0
                        ELSE StreakLoop(dates, 1, 0, end_date)]

\* the habits of get_default_data(); its fourth key, 'notes', is no habit
\* and is left out by every loop and select box
HabitNames == {"Tennis", "DSA Solving", "Finance Learning"}

\* a dict without keys
EmptyDict == [k \in {} |-> 0]

\* get_default_data(), which load_data() returns when the sheet has no data
get_default_data == [h \in HabitNames |-> [count |-> EmptyDict]]

\* the calendar tab: calculate_streak(habit_data, today) for each habit in
\* turn; an exception ends the run of the script
CalendarTab(habits, end_date) ==
    LET shown == [h \in DOMAIN habits |-> calculate_streak(habits[h], end_date)]
    IN  IF \E h \in DOMAIN habits : shown[h].raised
        THEN [raised |-> TRUE,
              message |-> shown[CHOOSE h \in DOMAIN habits : shown[h].raised].message]
        ELSE [raised |-> FALSE, value |-> [h \in DOMAIN habits |-> shown[h].value]]

\* "Initialize session state", on the first run of the script
FirstRun(now) ==
    [habits |-> get_default_data, current_month |-> now.month,
     current_year |-> now.year]

\* the first run of the script on one of the days, beside an idle parser
InitTracker ==
    /\ pc = "idle"
    /\ pdf_paths = <<>>
    /\ idx = 0
    /\ results = <<>>
    /\ stdout = <<>>
    /\ last = NoCall
    /\ trace = <<>>
    /\ held = <<>>
    /\ pool = <<>>
    /\ today \in Todays
    /\ session_state = FirstRun(today)
    /\ streak = CalendarTab(session_state.habits, today)

\* st.rerun(), and the end of a run without it: the script runs from the
\* top with the session state as the handler left it
Rerun(state) ==
    /\ session_state' = state
    /\ streak' = CalendarTab(state.habits, today)
    /\ UNCHANGED <<pc, pdf_paths, idx, results, stdout, last, trace, held, pool, today>>

\* the months between the month shown and the month of today
MonthsFromToday ==
    (session_state.current_year - today.year) * 12
    + session_state.current_month - today.month

\* the button "<"
PreviousMonth ==
    /\ MonthsFromToday > -MaxNav
    /\ Rerun(IF session_state.current_month = 1
             THEN [session_state EXCEPT !.current_month = 12,
                                        !.current_year = @ - 1]
             ELSE [session_state EXCEPT !.current_month = @ - 1])

\* the button ">"
NextMonth ==
    /\ MonthsFromToday < MaxNav
    /\ Rerun(IF session_state.current_month = 12
             THEN [session_state EXCEPT !.current_month = 1,
                                        !.current_year = @ + 1]
             ELSE [session_state EXCEPT !.current_month = @ + 1])

\* count[date_key] = 0 when date_key is not in count
WithKey(count, key) ==
    IF key \in DOMAIN count THEN count
    ELSE [k \in DOMAIN count \cup {key} |-> IF k = key THEN 0 ELSE count[k]]

\* del count[date_key]
WithoutKey(count, key) == [k \in DOMAIN count \ {key} |-> count[k]]

\* the activities recorded so far
RECURSIVE SumOf(_)
SumOf(count) ==
    IF DOMAIN count = {} THEN 0
    ELSE LET k == CHOOSE k \in DOMAIN count : TRUE
         IN  count[k] + SumOf(WithoutKey(count, k))

RECURSIVE Activities(_, _)
Activities(habits, names) ==
    IF names = {} THEN 0
    ELSE LET h == CHOOSE h \in names : TRUE
         IN  SumOf(habits[h].count) + Activities(habits, names \ {h})

\* "Add Activity" with the day and the habit chosen
AddActivityOn(selected_day, selected_habit) ==
    LET key == date_key(session_state.current_year,
                        session_state.current_month, selected_day)
        count == WithKey(session_state.habits[selected_habit].count, key)
    IN  Rerun([session_state EXCEPT
                  !.habits[selected_habit].count = [count EXCEPT ![key] = @ + 1]])

\* the button "Add Activity"
AddActivity ==
    /\ Activities(session_state.habits, HabitNames) < MaxActivities
    /\ \E selected_day \in Days, selected_habit \in DOMAIN session_state.habits :
        AddActivityOn(selected_day, selected_habit)

\* "Remove One" with the day and the habit chosen; without an activity on
\* that day it only warns, and the run ends showing what it showed
RemoveOneOn(remove_day, remove_habit) ==
    LET key == date_key(session_state.current_year,
                        session_state.current_month, remove_day)
        count == session_state.habits[remove_habit].count
    IN  IF key \in DOMAIN count
        THEN Rerun([session_state EXCEPT
                       !.habits[remove_habit].count =
                           IF count[key] > 1 THEN [count EXCEPT ![key] = @ - 1]
                           ELSE WithoutKey(count, key)])
        ELSE UNCHANGED vars

\* the button "Remove One"
RemoveOne ==
    \E remove_day \in Days, remove_habit \in DOMAIN session_state.habits :
        RemoveOneOn(remove_day, remove_habit)

\* the button "Clear All Data"
ClearAllData ==
    Rerun([session_state EXCEPT
              !.habits = [h \in DOMAIN session_state.habits |->
                             [session_state.habits[h] EXCEPT !.count = EmptyDict]]])

NextTracker ==
    PreviousMonth \/ NextMonth \/ AddActivity \/ RemoveOne \/ ClearAllData

SpecTracker == InitTracker /\ [][NextTracker]_vars
(***************************************************************************)
(* Properties                                                              *)
(***************************************************************************)

\* whether the text-extraction step fails for the document: the file does not
\* open, or one of its pages cannot be read
ExtractionFails(pdf_path) ==
    \/ ~pdf_path.file.opens
    \/ \E p \in 1..Len(pdf_path.file.pages) : pdf_path.file.pages[p] = BrokenPage

\* the call that has just returned is a parse_multiple call
BatchReturned == last.method = "parse_multiple"

\* C1: parse_multiple returns exactly one record per input document, the i-th
\* record carrying the file name of the i-th input, whichever documents fail
\* text extraction, issuer detection or fields; no exception leaves
\* parse_statement (so none ends the loop early).
C1_OneRecordPerDocument ==
    /\ pc # "raised"
    /\ pc = "loop" => Len(results) = idx - 1
    /\ BatchReturned =>
          /\ Len(last.value) = Len(last.arg)
          /\ \A i \in 1..Len(last.arg) : last.value[i].file_name = last.arg[i].name

\* a batch of two has returned: the first document failed text extraction,
\* the second named no issuer
C1_Witness ==
    /\ BatchReturned
    /\ Len(last.arg) = 2
    /\ ExtractionFails(last.arg[1])
    /\ last.value[1].file_name = "corrupt.pdf"
    /\ last.value[2].issuer = "Unknown"
    /\ last.value[2].file_name = "letter.pdf"

\* C2: if text extraction fails for document D of a batch, D's record has
\* status error, and every document after D is still processed and gets the
\* record a parse_statement call on it alone gives.
C2_FailureDoesNotBlock ==
    BatchReturned =>
        \A d \in 1..Len(last.arg) :
            ExtractionFails(last.arg[d]) =>
                /\ d <= Len(last.value)
                /\ last.value[d].parsing_status = "error"
                /\ \A j \in (d + 1)..Len(last.arg) :
                      /\ j <= Len(last.value)
                      /\ last.value[j] = parse_statement(last.arg[j]).value

\* a batch has returned whose first document failed and whose second is a
\* complete statement, parsed with success
C2_Witness ==
    /\ BatchReturned
    /\ Len(last.arg) = 2
    /\ ExtractionFails(last.arg[1])
    /\ last.value[1].parsing_status = "error"
    /\ last.value[2].parsing_status = "success"
    /\ last.value[2].issuer = "ICICI Bank"

\* the call that has just returned is a parse_statement call
StatementReturned == last.method = "parse_statement"

\* a parse_statement call has returned a record of an identified issuer
IdentifiedReturned ==
    /\ StatementReturned
    /\ ~last.raised
    /\ last.value.issuer \notin {"Unknown", "Error"}

\* every one of the eight fields of the record is empty
AllFieldsEmpty(record) == \A f \in 1..Len(FieldNames) : record[FieldNames[f]] = None

\* C3: a record has status error only if text extraction failed for the
\* document; an error record has issuer "Error", all eight fields empty and
\* exactly one entry in errors, the message of the failure, and neither
\* identify_issuer nor extract_field was called for the document.
C3_ErrorRecord ==
    StatementReturned =>
        /\ ~last.raised
        /\ last.value.parsing_status = "error" =>
              /\ ExtractionFails(last.arg)
              /\ extract_text_from_pdf(last.arg).raised
              /\ last.value.issuer = "Error"
              /\ AllFieldsEmpty(last.value)
              /\ last.value.errors = <<extract_text_from_pdf(last.arg).message>>
              /\ last.calls = <<"extract_text_from_pdf">>

\* parse_statement has returned the error record of a file whose third page
\* cannot be read
C3_Witness ==
    /\ StatementReturned
    /\ last.arg.name = "torn.pdf"
    /\ ExtractionFails(last.arg)
    /\ last.value.parsing_status = "error"
    /\ last.value.issuer = "Error"
    /\ Len(last.value.errors) = 1

\* the fields of the record that are present
Present(record) == {f \in 1..Len(FieldNames) : record[FieldNames[f]] # None}

\* C4: for an identified issuer the status is success if no diagnostic was
\* recorded, failed if card_number, total_amount_due and payment_due_date are
\* all empty, partial otherwise; no field present gives failed, one critical
\* field and nothing else present gives partial, all eight present gives
\* success.
C4_StatusClassification ==
    IdentifiedReturned =>
        /\ last.value.parsing_status =
              IF last.value.errors = <<>> THEN "success"
              ELSE IF /\ last.value.card_number = None
                      /\ last.value.total_amount_due = None
                      /\ last.value.payment_due_date = None
                   THEN "failed" ELSE "partial"
        /\ Present(last.value) = {} => last.value.parsing_status = "failed"
        /\ (\E f \in {1, 3, 4} : Present(last.value) = {f})
              => last.value.parsing_status = "partial"
        /\ Cardinality(Present(last.value)) = 8 => last.value.parsing_status = "success"

\* parse_statement has returned a partial record in which the card number is
\* the only field present, with a diagnostic for each of the other fields
C4_Witness ==
    /\ IdentifiedReturned
    /\ Present(last.value) = {1}
    /\ last.value.parsing_status = "partial"
    /\ Len(last.value.errors) >= 5

\* no identifier pattern of any profile of the registry matches the text
MatchesNoIdentifier(parsers, text) ==
    \A k \in 1..Len(parsers) : \A j \in 1..Len(parsers[k].identifier) :
        re_search(parsers[k].identifier[j], text, {IGNORECASE}) = NoMatch

\* the text of the document could be extracted and names no issuer
Unidentifiable(pdf_path, text) ==
    /\ ~text.raised
    /\ MatchesNoIdentifier(PARSERS, text.value)

\* the record of a document that names no issuer has this shape, with this
\* one diagnostic
UnknownRecordHas(diagnostic) ==
    (StatementReturned /\ Unidentifiable(last.arg, extract_text_from_pdf(last.arg))) =>
        /\ ~last.raised
        /\ last.value.issuer = "Unknown"
        /\ last.value.parsing_status = "failed"
        /\ AllFieldsEmpty(last.value)
        /\ last.value.errors = <<diagnostic>>

\* C5 as stated: for text that matches no identifier pattern of any profile
\* the record has issuer "Unknown", status failed, all eight fields empty and
\* errors == ["could not identify issuer"].
C5_UnknownIssuer_AsStated == UnknownRecordHas("could not identify issuer")

\* C5: for text that matches no identifier pattern of any profile (empty text
\* included) the record has issuer "Unknown", status failed, all eight fields
\* empty and errors == ["Could not identify credit card issuer"].
C5_UnknownIssuer == UnknownRecordHas("Could not identify credit card issuer")

\* parse_statement has returned the record of a file without pages, whose
\* text is empty
C5_Witness ==
    /\ StatementReturned
    /\ last.arg.name = "blank.pdf"
    /\ extract_text_from_pdf(last.arg) = [raised |-> FALSE, value |-> <<>>]
    /\ last.value.issuer = "Unknown"
    /\ last.value.parsing_status = "failed"

\* the call that has just returned is an identify_issuer call
IdentifyReturned == last.method = "identify_issuer"

\* whether some identifier pattern of profile k matches the text
ProfileMatches(parsers, k, text) ==
    \E j \in 1..Len(parsers[k].identifier) :
        re_search(parsers[k].identifier[j], text, {IGNORECASE}) # NoMatch

\* the profiles with an identifier pattern that matches the text
MatchingProfiles(parsers, text) ==
    {k \in 1..Len(parsers) : ProfileMatches(parsers, k, text)}

\* the least number of a non-empty set of numbers
Min(S) == CHOOSE m \in S : \A n \in S : m <= n

\* the greatest number of a non-empty set of numbers
Max(S) == CHOOSE m \in S : \A n \in S : n <= m

\* the value is the name of the first of these profiles, and none exactly
\* when there are none
IsFirstOf(value, parsers, matching) ==
    /\ matching # {} => value = parsers[Min(matching)].issuer
    /\ value = NoIssuer <=> matching = {}

\* the positions in the text where an identifier pattern of profile k matches
MatchStarts(parsers, k, text) ==
    {re_search(parsers[k].identifier[j], text, {IGNORECASE}).bounds[1] :
        j \in {i \in 1..Len(parsers[k].identifier) :
                  re_search(parsers[k].identifier[i], text, {IGNORECASE}) # NoMatch}}

\* C6: identify_issuer returns the name of the first profile, in registry
\* order, with an identifier pattern that matches the text, wherever in the
\* text the matches are; it returns none exactly when no identifier pattern
\* of any profile matches.
C6_FirstProfileWins ==
    IdentifyReturned =>
        IsFirstOf(last.value, PARSERS, MatchingProfiles(PARSERS, last.arg))

\* identify_issuer has returned the first profile's name for a text in which
\* the second profile's identifier comes before every match of the first's
C6_Witness ==
    /\ IdentifyReturned
    /\ last.value = "ICICI Bank"
    /\ MatchingProfiles(PARSERS, last.arg) = {1, 2}
    /\ \A s \in MatchStarts(PARSERS, 1, last.arg) :
          \E t \in MatchStarts(PARSERS, 2, last.arg) : t < s

\* the call that has just returned is an extract_field call
ExtractReturned == last.method = "extract_field"

\* the patterns of the list that match the text
MatchingPatterns(text, patterns) ==
    {i \in 1..Len(patterns) :
        re_search(patterns[i], text, {IGNORECASE, MULTILINE}) # NoMatch}

\* the value extract_field gives for the first of these patterns of the list
\* alone, none when there are none
ValueOfFirst(text, patterns, matching) ==
    IF matching = {} THEN None ELSE extract_field(text, <<patterns[Min(matching)]>>)

\* C7: extract_field returns the value of the lowest-index pattern of the
\* list that matches the text, whatever the later patterns would give, and
\* none when no pattern matches.
C7_FirstPatternWins ==
    ExtractReturned =>
        last.value = ValueOfFirst(last.arg, last.patterns,
                                  MatchingPatterns(last.arg, last.patterns))

\* extract_field has returned the first pattern's value for a list of two
\* patterns that both match and give different values
C7_Witness ==
    /\ ExtractReturned
    /\ Len(last.patterns) = 2
    /\ MatchingPatterns(last.arg, last.patterns) = {1, 2}
    /\ last.value = extract_field(last.arg, <<last.patterns[1]>>)
    /\ last.value # extract_field(last.arg, <<last.patterns[2]>>)

\* the match of the pattern in the text, as extract_field searches
FieldMatch(text, pattern) == re_search(pattern, text, {IGNORECASE, MULTILINE})

\* the positions of the text that hold no whitespace
Inked(s) == {i \in 1..Len(s) : s[i] \notin Space}

\* the text without its leading and trailing whitespace
Trimmed(s) == IF Inked(s) = {} THEN <<>> ELSE SubSeq(s, Min(Inked(s)), Max(Inked(s)))

\* the text of the last group for a match of a pattern with more than one
\* capture group, of the group for one, the whole match for none
GroupRule(match, n) ==
    IF n > 1 THEN MatchGroup(match, n)
    ELSE IF n = 1 THEN MatchGroup(match, 1) ELSE MatchGroup0(match)

\* the value is what the rule gives for the first of the matching patterns
FollowsGroupRule(value, text, patterns, matching) ==
    matching # {} =>
        value = GroupRule(FieldMatch(text, patterns[Min(matching)]),
                          NumGroups(patterns[Min(matching)]))

\* the value, stripped, is the trimmed whole match of the first of the
\* matching patterns if that pattern has no capture group
WholeMatchTrimmed(value, text, patterns, matching) ==
    (matching # {} /\ NumGroups(patterns[Min(matching)]) = 0) =>
        strip(value) = Trimmed(MatchGroup0(FieldMatch(text, patterns[Min(matching)])))

\* the text "01-02-2024"
Date01022024 == <<"0", "1", "-", "0", "2", "-", "2", "0", "2", "4">>

\* C8: when the matching pattern has more than one capture group
\* extract_field returns the text of the last group, with one group the
\* text of that group, with none the whole match; (\d{2})-(\d{2})-(\d{4}) on
\* "01-02-2024" gives "2024".
C8_LastGroupWins ==
    ExtractReturned =>
        /\ FollowsGroupRule(last.value, last.arg, last.patterns,
                            MatchingPatterns(last.arg, last.patterns))
        /\ (last.arg = Date01022024 /\ last.patterns = <<ThreeGroupDate>>)
              => last.value = <<"2", "0", "2", "4">>

\* extract_field has returned "2024" for (\d{2})-(\d{2})-(\d{4}) on
\* "01-02-2024", whose first group is "01"
C8_Witness ==
    /\ ExtractReturned
    /\ last.arg = Date01022024
    /\ last.patterns = <<ThreeGroupDate>>
    /\ NumGroups(last.patterns[1]) = 3
    /\ MatchGroup(FieldMatch(last.arg, last.patterns[1]), 1) = <<"0", "1">>
    /\ last.value = <<"2", "0", "2", "4">>

\* the configured fields of the profile for which no pattern matches the text
Missed(fields, text) ==
    {i \in 1..Len(fields) : MatchingPatterns(text, fields[i].patterns) = {}}

\* one diagnostic, the prefix followed by the field's name, for each of the
\* fields from i on that are in the set, in the profile's order
RECURSIVE DiagnosticsOf(_, _, _, _)
DiagnosticsOf(prefix, fields, missed, i) ==
    IF i > Len(fields) THEN <<>>
    ELSE (IF i \in missed THEN <<prefix \o fields[i].field>> ELSE <<>>)
         \o DiagnosticsOf(prefix, fields, missed, i + 1)

\* the diagnostics of the record are those of the missed fields, and a
\* configured field is empty exactly when it was missed
MissesRecorded(prefix, record, fields, missed) ==
    /\ record.errors = DiagnosticsOf(prefix, fields, missed, 1)
    /\ \A i \in 1..Len(fields) : record[fields[i].field] = None <=> i \in missed

\* the record of an identified issuer has one diagnostic with this prefix
\* for each missed field
DiagnosticPerMiss(prefix) ==
    IdentifiedReturned =>
        MissesRecorded(prefix, last.value, Config(last.value.issuer).patterns,
                       Missed(Config(last.value.issuer).patterns,
                              extract_text_from_pdf(last.arg).value))

\* C9 as stated: for an identified issuer, errors has exactly one diagnostic
\* "could not extract <field>" for each configured field whose patterns all
\* fail, in the profile's field order, and none for any other field; a
\* configured field is empty if and only if its diagnostic is present.
C9_DiagnosticPerMiss_AsStated == DiagnosticPerMiss("could not extract ")

\* C9: for an identified issuer, errors has exactly one diagnostic
\* "Could not extract <field>" for each configured field whose patterns all
\* fail, in the profile's field order, and none for any other field; a
\* configured field is empty if and only if its diagnostic is present,
\* however many fields miss.
C9_DiagnosticPerMiss == DiagnosticPerMiss("Could not extract ")

\* parse_statement has returned a record with the diagnostics of three
\* missed fields, in the profile's order, between fields that were found
C9_Witness ==
    /\ IdentifiedReturned
    /\ last.value.issuer = "ICICI Bank"
    /\ last.value.errors = <<"Could not extract statement_date",
                             "Could not extract minimum_amount_due",
                             "Could not extract previous_balance">>
    /\ last.value.statement_date = None
    /\ last.value.card_number # None
    /\ last.value.total_amount_due # None

\* whether the text s occurs in the text t, character for character
OccursIn(s, t) == \E p \in 1..(Len(t) - Len(s) + 1) : SubSeq(t, p, p + Len(s) - 1) = s

\* every configured field present in the record is the trimmed result of
\* extract_field for that field, as it stands in the text
FieldsAsExtracted(record, fields, text) ==
    \A i \in 1..Len(fields) :
        record[fields[i].field] # None =>
            /\ record[fields[i].field] = Trimmed(extract_field(text, fields[i].patterns))
            /\ OccursIn(record[fields[i].field], text)

\* C10: every field value present in a record is the text extract_field
\* returned for the field with leading and trailing whitespace removed and no
\* other change; where the matching pattern has no capture group the value
\* stored (value.strip()) is the whole match, trimmed.
C10_ValueVerbatimTrimmed ==
    /\ IdentifiedReturned =>
          FieldsAsExtracted(last.value, Config(last.value.issuer).patterns,
                            extract_text_from_pdf(last.arg).value)
    /\ ExtractReturned =>
          WholeMatchTrimmed(last.value, last.arg, last.patterns,
                            MatchingPatterns(last.arg, last.patterns))

\* extract_field has returned the whole match of a pattern without capture
\* group, whitespace on both sides of it, which value.strip() removes
C10_Witness ==
    /\ ExtractReturned
    /\ last.patterns = <<NoGroupPadded, ThreeGroupDate>>
    /\ last.value = <<" ", "0", "3", "-", "0", "4", "-", "2", "0", "2", "5", " ", "\n">>
    /\ strip(last.value) = <<"0", "3", "-", "0", "4", "-", "2", "0", "2", "5">>

\* the names of the fields the profile defines
Configured(fields) == {fields[i].field : i \in 1..Len(fields)}

\* the fields the profile does not define are empty in the record, have no
\* diagnostic and were not handed to extract_field; every diagnostic and
\* every extract_field call is for a field the profile defines
UndefinedUntouched(record, calls, configured) ==
    /\ \A f \in 1..Len(FieldNames) :
          FieldNames[f] \notin configured =>
              /\ record[FieldNames[f]] = None
              /\ \A e \in 1..Len(record.errors) :
                    record.errors[e] # "Could not extract " \o FieldNames[f]
              /\ \A k \in 1..Len(calls) : calls[k] # "extract_field " \o FieldNames[f]
    /\ \A e \in 1..Len(record.errors) :
          \E g \in configured : record.errors[e] = "Could not extract " \o g
    /\ Len(calls) = 2 + Cardinality(configured)

\* the record has success when every field the profile defines is present
SuccessOnConfigured(record, configured) ==
    (\A g \in configured : record[g] # None) => record.parsing_status = "success"

\* C11: a field the identified issuer's profile does not define is never
\* attempted, stays empty and gets no diagnostic, so an issuer that defines
\* fewer than eight fields gets status success when every field it defines
\* is extracted.
C11_UndefinedFieldsUntouched ==
    IdentifiedReturned =>
        /\ UndefinedUntouched(last.value, last.calls,
                              Configured(Config(last.value.issuer).patterns))
        /\ SuccessOnConfigured(last.value, Configured(Config(last.value.issuer).patterns))

\* parse_statement has returned a success record for RBL Bank, whose profile
\* defines six fields, with the two other fields empty
C11_Witness ==
    /\ IdentifiedReturned
    /\ last.value.issuer = "RBL Bank"
    /\ Cardinality(Configured(Config("RBL Bank").patterns)) = 6
    /\ last.value.parsing_status = "success"
    /\ last.value.errors = <<>>
    /\ last.value.available_credit = None
    /\ last.value.previous_balance = None
    /\ last.value.credit_limit # None

\* the three texts of the end-to-end example: "ICICI Bank",
\* "Total Amount due: Rs. 12,345.67" and "Payment Due Date: 05 Jan, 2025"
EndToEndParts ==
    <<SubSeq(SampleICICI[1], 1, 10),
      SubSeq(OtherLines[9], 1, Len(OtherLines[9]) - 1),
      SubSeq(OtherLines[10], 1, Len(OtherLines[10]) - 1)>>

\* the text holds the three texts of the example and no pattern of any other
\* field of the ICICI Bank profile matches it
EndToEndText(text, fields) ==
    /\ ~text.raised
    /\ \A p \in 1..Len(EndToEndParts) : OccursIn(EndToEndParts[p], text.value)
    /\ \A i \in 1..Len(fields) :
          fields[i].field \notin {"total_amount_due", "payment_due_date"}
              => MatchingPatterns(text.value, fields[i].patterns) = {}

\* the record of the end-to-end example, with this diagnostic among its errors
EndToEndRecord(record, diagnostic) ==
    /\ record.issuer = "ICICI Bank"
    /\ record.total_amount_due = <<"1", "2", ",", "3", "4", "5", ".", "6", "7">>
    /\ record.payment_due_date =
          <<"0", "5", " ", "J", "a", "n", ",", " ", "2", "0", "2", "5">>
    /\ record.card_number = None
    /\ record.parsing_status = "partial"
    /\ \E e \in 1..Len(record.errors) : record.errors[e] = diagnostic

\* parse_statement on a text of the end-to-end example returns the example's
\* record with this diagnostic
EndToEnd(diagnostic) ==
    (/\ StatementReturned
     /\ EndToEndText(extract_text_from_pdf(last.arg), Config("ICICI Bank").patterns))
        => (~last.raised /\ EndToEndRecord(last.value, diagnostic))

\* C12 as stated: for text containing "ICICI Bank", "Total Amount due: Rs.
\* 12,345.67" and "Payment Due Date: 05 Jan, 2025" and no other recognizable
\* field, the record has issuer "ICICI Bank", total_amount_due "12,345.67",
\* payment_due_date "05 Jan, 2025", card_number empty, status partial, and
\* errors contains "could not extract card_number".
C12_EndToEnd_AsStated == EndToEnd("could not extract card_number")

\* C12: for the same text the record has issuer "ICICI Bank",
\* total_amount_due "12,345.67", payment_due_date "05 Jan, 2025", card_number
\* empty, status partial, and errors contains
\* "Could not extract card_number".
C12_EndToEnd == EndToEnd("Could not extract card_number")

\* parse_statement has returned the record of a one-line text made of the
\* three texts of the example
C12_Witness ==
    /\ StatementReturned
    /\ last.arg.name = "icici_e2e_line.pdf"
    /\ EndToEndText(extract_text_from_pdf(last.arg), Config("ICICI Bank").patterns)
    /\ EndToEndRecord(last.value, "Could not extract card_number")
    /\ Len(last.value.errors) = 6

\* the workers have delivered the records of the batch
PoolReturned == last.method = "pool"

\* every record of the list is the record parse_statement gives for the
\* document at its position, called on it alone
EachOnItsOwn(paths, records) ==
    /\ Len(records) = Len(paths)
    /\ \A i \in 1..Len(paths) : records[i] = parse_statement(paths[i]).value

EventsOf(d, kind) == {k \in 1..Len(trace) : trace[k].doc = d /\ trace[k].event = kind}

\* the lines of the print events of the trace from position k on, in order
RECURSIVE PrintedLines(_)
PrintedLines(k) ==
    IF k > Len(trace) THEN <<>>
    ELSE (IF trace[k].event = "print" THEN <<trace[k].what>> ELSE <<>>)
         \o PrintedLines(k + 1)

\* the two notifications of document d: the first, with the document's name,
\* before anything is done for d; the second, with the issuer and the status
\* of d's record, after the record is appended and before anything is done
\* for the next document
NotifiedAround(d, prints) ==
    /\ Cardinality(prints) = 2
    /\ trace[Min(prints)].what = "Processing: " \o pdf_paths[d].name \o "..."
    /\ trace[Max(prints)].what =
          "  " \o StatusSymbol(results[d].parsing_status) \o " " \o results[d].issuer
          \o " - " \o results[d].parsing_status
    /\ Cardinality(EventsOf(d, "append")) = 1
    /\ EventsOf(d, "call") # {}
    /\ \A k \in EventsOf(d, "call") \cup EventsOf(d, "append") :
          Min(prints) < k /\ k < Max(prints)
    /\ \A k \in 1..Len(trace) :
          /\ trace[k].doc < d => k < Min(prints)
          /\ trace[k].doc > d => k > Max(prints)

\* C14: during parse_multiple, for each document in input order, exactly one
\* notification with the document's name is printed before the document is
\* processed and exactly one with its issuer and status after its record is
\* appended and before the next document starts; the records are those
\* parse_statement returns, whatever is printed.
C14_ProgressNotifications ==
    /\ Len(results) <= Len(pdf_paths)
    /\ \A d \in 1..Len(results) :
          /\ NotifiedAround(d, EventsOf(d, "print"))
          /\ results[d] = parse_statement(pdf_paths[d]).value
    /\ \A k \in 1..Len(trace) : trace[k].doc \in 1..Len(results)
    /\ stdout = PrintedLines(1)

\* parse_multiple has returned from a batch of two documents, with four lines
\* printed, the last of them for the error record of the second document
C14_Witness ==
    /\ BatchReturned
    /\ Len(results) = 2
    /\ Len(stdout) = 4
    /\ stdout[1] = "Processing: icici.pdf..."
    /\ stdout[3] = "Processing: torn.pdf..."
    /\ results[2].parsing_status = "error"
    /\ trace[Len(trace)].what = stdout[4]
    /\ trace[Len(trace) - 1].event = "append"

\* the positions in the trace of the calls of extract_text_from_pdf for
\* document d
Extractions(d) ==
    {k \in EventsOf(d, "call") : trace[k].what = "extract_text_from_pdf"}

\* the text of each document handled so far was extracted once, that of the
\* documents still to come not at all
ExtractedOnce ==
    \A d \in 1..Len(pdf_paths) :
        Cardinality(Extractions(d)) = IF d <= Len(results) THEN 1 ELSE 0

\* a step of a running call is a turn of the loop for the next document, or
\* the return after the last document with a record for each
NoWayOutButTheEnd ==
    pc = "loop" =>
        \/ /\ idx <= Len(pdf_paths)
           /\ pc' = "loop"
           /\ idx' = idx + 1
           /\ pdf_paths' = pdf_paths
           /\ Len(results') = Len(results) + 1
        \/ /\ idx = Len(pdf_paths) + 1
           /\ pc' = "idle"
           /\ Len(results) = Len(pdf_paths)
           /\ last' = [method |-> "parse_multiple", arg |-> pdf_paths, value |-> results]

\* C15: within one parse_multiple call extract_text_from_pdf is called
\* exactly once for each input document, also when it fails or the document
\* ends as failed or error (no retry), and nothing ends the call before the
\* last document has its record.
C15_OnceAndToCompletion ==
    /\ [](pc # "raised" /\ ExtractedOnce)
    /\ [][NoWayOutButTheEnd]_vars

\* parse_multiple has returned from a batch of a file that cannot be opened
\* and a file that names no issuer, the text of each extracted once
C15_Witness ==
    /\ BatchReturned
    /\ Len(pdf_paths) = 2
    /\ Len(results) = 2
    /\ results[1].parsing_status = "error"
    /\ results[2].parsing_status = "failed"
    /\ Cardinality(Extractions(1)) = 1
    /\ Cardinality(Extractions(2)) = 1

\* C16: in every record parse_statement produces, parsing_status is one of
\* success, partial, failed and error, errors is a list (never None), and
\* parsing_status is success if and only if errors is empty.
C16_StatusAndErrors ==
    StatementReturned =>
        /\ ~last.raised
        /\ last.value.parsing_status \in {"success", "partial", "failed", "error"}
        /\ last.value.errors # None
        /\ \A e \in 1..Len(last.value.errors) :
              last.value.errors[e] \notin {"", "\\None"}
        /\ last.value.parsing_status = "success" <=> last.value.errors = <<>>

\* parse_statement has returned a success record, built without errors
\* argument, whose errors is the empty list
C16_Witness ==
    /\ StatementReturned
    /\ last.value.issuer = "American Express"
    /\ last.value.parsing_status = "success"
    /\ last.value.errors = <<>>

\* C17: after any sequence of parse_multiple calls on one parser,
\* self.results holds exactly the records of the most recent batch (those of
\* earlier batches do not pile up), and a list returned by an earlier call
\* holds what it held when it was returned.
C17_ResultsOfLastBatchOnly ==
    /\ pc = "loop" => Len(results) = idx - 1
    /\ BatchReturned => (results = last.value /\ EachOnItsOwn(last.arg, results))
    /\ \A k \in 1..Len(held) : held[k].list = held[k].returned

\* the third call on a parser has returned the record of its one document,
\* the caller holding the two records of the first call and the two of the
\* second
C17_Witness ==
    /\ BatchReturned
    /\ Len(held) = 2
    /\ Len(held[1].list) = 2
    /\ Len(held[2].list) = 2
    /\ held[1].list # held[2].list
    /\ ~held[2].bound
    /\ Len(last.arg) = 1
    /\ Len(results) = 1

\* main has printed its statistics
StatisticsPrinted == last.method = "main"

\* C18: in the statistics main prints after a batch every record is counted
\* in exactly one of Success, Partial and Failed, so that
\* Total == Success + Partial + Failed.
C18_TalliesAddUp ==
    StatisticsPrinted =>
        last.value.total = last.value.success + last.value.partial + last.value.failed


(***************************************************************************)
(* The habit tracker                                                       *)
(***************************************************************************)

\* the keys of the count maps of all habits
StoredKeys ==
    UNION {DOMAIN session_state.habits[h].count : h \in DOMAIN session_state.habits}

\* the years the navigation can show
YearsShown == (today.year - MaxNav)..(today.year + MaxNav)

\* the key is that of a day some month has
IsCalendarDate(key) ==
    \E year \in YearsShown, month \in 1..12 :
        \E day \in 1..monthrange(year, month) : key = date_key(year, month, day)

\* C19: after any sequence of month navigation and Add Activity, every key
\* stored in a habit's count map is a calendar date (its day is one its month
\* has), so that calculate_streak parses every stored key and the calendar tab
\* shows the streaks.
C19_StoredKeysAreDates ==
    /\ \A key \in StoredKeys : IsCalendarDate(key) /\ ~strptime(key).raised
    /\ ~streak.raised

\* the day before a day of the calendar
DayBefore(d) ==
    IF d.day > 1 THEN date(d.year, d.month, d.day - 1)
    ELSE IF d.month > 1
         THEN date(d.year, d.month - 1, monthrange(d.year, d.month - 1))
         ELSE date(d.year - 1, 12, 31)

\* the length of the longest run of consecutive days ending at end_date that
\* all are among the dates
RECURSIVE RunEndingAt(_, _)
RunEndingAt(dates, end_date) ==
    IF end_date \in dates THEN 1 + RunEndingAt(dates, DayBefore(end_date)) ELSE 0

\* the days on which the habit has an entry
EntryDays(h) ==
    {strptime(key).value : key \in DOMAIN session_state.habits[h].count}

\* C20: the streak calculate_streak returns for a habit is the length of the
\* longest run of consecutive calendar days ending at end_date that all have
\* an entry (0 when end_date has none), also when the run crosses a month
\* boundary or the boundary between December and January.
C20_StreakIsLongestRun ==
    ~streak.raised =>
        \A h \in DOMAIN session_state.habits :
            streak.value[h] = RunEndingAt(EntryDays(h), today)

\* the streak is right whenever no run reaches back from 1 January
RunsWithinTheYear ==
    (~streak.raised /\ today.month # 1) =>
        \A h \in DOMAIN session_state.habits :
            streak.value[h] = RunEndingAt(EntryDays(h), today)
====
